---- MODULE Spec2Model ----
(***************************************************************************)
(* Model of the two relationship-based access-control demos of the         *)
(* authcore-openfga-operator repository:                                   *)
(*   demos/banking-app/banking_demo.rs   (BankingDemo)                     *)
(*   demos/genai-rag/genai_rag_demo.rs   (GenAIRAGDemo)                    *)
(*                                                                         *)
(* Strings.  The authorization code parses its request strings with        *)
(* split(':') and builds nested requests with format!("type:{}", id).  A   *)
(* Rust String is therefore modelled as the non-empty sequence of its      *)
(* ':'-separated segments: "account:acc1" is <<"account", "acc1">>, "acc1" *)
(* is <<"acc1">>, the empty string is <<"">> and "kb1:x" is <<"kb1", "x">>.*)
(* A &str produced by split(':') is one segment, a TLA+ string.            *)
(*                                                                         *)
(* Collections.  A HashMap<String, T> is a function whose domain is the    *)
(* set of keys; a Vec<String> is a sequence; the tuples vector, whose      *)
(* order follows HashMap iteration and is not observable through any       *)
(* operation, is a bag of (user, relation, object) triples.                *)
(***************************************************************************)
EXTENDS Bags, FiniteSets, Integers, Sequences, TLC

VARIABLES banking,  \* the BankingDemo struct, or NotConstructed
          genai,    \* the GenAIRAGDemo struct, or NotConstructed
          last,     \* the last public operation and the value it returned
          ops,      \* number of store mutations performed since construction
          operator  \* the operator process, or NotStarted

vars == <<banking, genai, last, ops, operator>>

\* Bound on the number of store mutations (add_*) explored after construction.
MaxOps == 2

\* Bound on the number of health-interval ticks explored in one process.
MaxTicks == 2

(***************************************************************************)
(* Strings                                                                 *)
(***************************************************************************)

\* s.to_string() of a ':'-free &str: the String with that single segment.
to_string(seg) == <<seg>>

\* format!("<prefix>:{}", s)
format(prefix, s) == <<prefix>> \o s

\* s.split(':').next(): the first segment (split always yields one).
split_next(s) == s[1]

\* s.split(':').nth(1).unwrap_or("")
split_nth1(s) == IF Len(s) >= 2 THEN s[2] ELSE ""

\* Vec::contains
contains(list, x) == \E i \in 1..Len(list) : list[i] = x

\* Vec::is_empty
is_empty(list) == Len(list) = 0

(***************************************************************************)
(* HashMap                                                                 *)
(***************************************************************************)

\* HashMap::new()
EmptyMap == [k \in {} |-> k]

\* HashMap::insert: upsert of one key, every other entry kept.
insert(map, key, value) ==
    [k \in (DOMAIN map) \cup {key} |-> IF k = key THEN value ELSE map[k]]

\* HashMap::get(key).is_some()
has(map, key) == key \in DOMAIN map

(***************************************************************************)
(* Bags of tuples                                                          *)
(***************************************************************************)

\* One OpenFGATuple.
Tuple(user, relation, object) ==
    [user |-> user, relation |-> relation, object |-> object]

RECURSIVE SeqToBag(_)
\* The bag of the elements of a sequence of pushes.
SeqToBag(s) ==
    IF s = <<>> THEN EmptyBag ELSE SetToBag({Head(s)}) (+) SeqToBag(Tail(s))

RECURSIVE BagSum(_)
\* The pushes made while iterating map.values(): pushes[k] is the sequence of
\* tuples pushed for the entry with key k; the result is their sum.
BagSum(pushes) ==
    IF DOMAIN pushes = {} THEN EmptyBag
    ELSE LET k == CHOOSE x \in DOMAIN pushes : TRUE
         IN  SeqToBag(pushes[k])
             (+) BagSum([x \in (DOMAIN pushes) \ {k} |-> pushes[x]])

\* for x in list { push(Tuple(user:x, relation, object)) }
RelationPushes(list, relation, object) ==
    [i \in 1..Len(list) |-> Tuple(format("user", list[i]), relation, object)]

\* The struct that was not built: each demo is its own program.
NotConstructed == [constructed |-> FALSE]

\* TRUE of a struct built by new().
Constructed(self) == "users" \in DOMAIN self

\* Option::None (no String is the empty sequence).
None == <<>>

\* chrono::Utc::now().to_rfc3339() when the clock reads `clock`.
utc_now(clock) == <<"now", clock>>

\* The reading at construction; the operations of Spec all run at this
\* reading, those of SpecStore at later ones.
Now == utc_now(0)

\* The operator process of a program that runs a demo only.
NotStarted == [started |-> FALSE]

\* The value of `last` when no operation has returned since the last mutation.
NoOperation == [op |-> "none", request |-> <<>>, response |-> <<>>]

\* Ids used by the demo data and by the explored inputs.
alice == <<"alice">>
bob == <<"bob">>
charlie == <<"charlie">>
diana == <<"diana">>
eve == <<"eve">>
frank == <<"frank">>
\* An id that is never added to a users map by the demo data.
zed == <<"zed">>
\* The empty String.
EmptyString == <<"">>

(***************************************************************************)
(* BankingDemo: store                                                      *)
(***************************************************************************)

\* BankingDemo { users, banks, ... } with empty collections.
BankingDemo_empty ==
    [users |-> EmptyMap, banks |-> EmptyMap, branches |-> EmptyMap,
     accounts |-> EmptyMap, loans |-> EmptyMap, transactions |-> EmptyMap,
     tuples |-> EmptyBag]

Banking_add_user(self, id, name, role) ==
    [self EXCEPT !.users =
        insert(self.users, id, [id |-> id, name |-> name, role |-> role])]

Banking_add_bank(self, id, name, admins, managers) ==
    [self EXCEPT !.banks =
        insert(self.banks, id,
               [id |-> id, name |-> name, admins |-> admins,
                managers |-> managers])]

Banking_add_branch(self, id, name, parent_bank_id, manager_id, tellers) ==
    [self EXCEPT !.branches =
        insert(self.branches, id,
               [id |-> id, name |-> name, parent_bank_id |-> parent_bank_id,
                manager_id |-> manager_id, tellers |-> tellers])]

Banking_add_account(self, id, account_number, parent_branch_id, owners, co_owners, balance, account_type) ==
    [self EXCEPT !.accounts =
        insert(self.accounts, id,
               [id |-> id, account_number |-> account_number,
                parent_branch_id |-> parent_branch_id, owners |-> owners,
                co_owners |-> co_owners, balance |-> balance,
                account_type |-> account_type])]

Banking_add_loan(self, id, parent_branch_id, borrower_id, co_borrowers, loan_officer_id, amount, status, interest_rate) ==
    [self EXCEPT !.loans =
        insert(self.loans, id,
               [id |-> id, parent_branch_id |-> parent_branch_id,
                borrower_id |-> borrower_id, co_borrowers |-> co_borrowers,
                loan_officer_id |-> loan_officer_id, amount |-> amount,
                status |-> status, interest_rate |-> interest_rate])]

\* add_transaction with the reading of the clock it takes.
Banking_add_transaction_at(self, id, source_account_id, target_account_id, initiated_by, amount, transaction_type, timestamp) ==
    [self EXCEPT !.transactions =
        insert(self.transactions, id,
               [id |-> id, source_account_id |-> source_account_id,
                target_account_id |-> target_account_id,
                initiated_by |-> initiated_by, amount |-> amount,
                transaction_type |-> transaction_type, timestamp |-> timestamp,
                status |-> "completed"])]

Banking_add_transaction(self, id, source_account_id, target_account_id, initiated_by, amount, transaction_type) ==
    Banking_add_transaction_at(self, id, source_account_id, target_account_id, initiated_by, amount, transaction_type, Now)

\* The tuples pushed for one account.
Banking_account_pushes(account) ==
    <<Tuple(format("branch", account.parent_branch_id), "parent_branch",
            format("account", account.id))>>
    \o RelationPushes(account.owners, "owner", format("account", account.id))
    \o RelationPushes(account.co_owners, "co_owner",
                      format("account", account.id))

\* The tuples pushed for one loan.
Banking_loan_pushes(loan) ==
    <<Tuple(format("branch", loan.parent_branch_id), "parent_branch",
            format("loan", loan.id)),
      Tuple(format("user", loan.borrower_id), "borrower",
            format("loan", loan.id))>>
    \o RelationPushes(loan.co_borrowers, "co_borrower",
                      format("loan", loan.id))
    \o <<Tuple(format("user", loan.loan_officer_id), "loan_officer",
               format("loan", loan.id))>>

\* Pushes the tuples of bank1, of branch1 and of every account and loan.
Banking_setup_authorization_tuples(self) ==
    LET bank1 == <<"bank1">>
        branch1 == <<"branch1">>
        bankPushes ==
            IF has(self.banks, bank1)
            THEN RelationPushes(self.banks[bank1].admins, "admin",
                                <<"bank", "bank1">>)
                 \o RelationPushes(self.banks[bank1].managers, "manager",
                                   <<"bank", "bank1">>)
            ELSE <<>>
        branchPushes ==
            IF has(self.branches, branch1)
            THEN <<Tuple(<<"bank", "bank1">>, "parent_bank",
                         <<"branch", "branch1">>)>>
                 \o (IF self.branches[branch1].manager_id # None
                     THEN <<Tuple(format("user",
                                         self.branches[branch1].manager_id),
                                  "manager", <<"branch", "branch1">>)>>
                     ELSE <<>>)
                 \o RelationPushes(self.branches[branch1].tellers, "teller",
                                   <<"branch", "branch1">>)
            ELSE <<>>
    IN [self EXCEPT !.tuples =
          self.tuples
          (+) SeqToBag(bankPushes)
          (+) SeqToBag(branchPushes)
          (+) BagSum([k \in DOMAIN self.accounts |->
                         Banking_account_pushes(self.accounts[k])])
          (+) BagSum([k \in DOMAIN self.loans |->
                         Banking_loan_pushes(self.loans[k])])]

\* The demo graph, then its tuples.
Banking_setup_demo_data(self) ==
    LET s1 == Banking_add_user(self, alice, "Alice Johnson", "customer")
        s2 == Banking_add_user(s1, bob, "Bob Smith", "customer")
        s3 == Banking_add_user(s2, charlie, "Charlie Brown", "teller")
        s4 == Banking_add_user(s3, diana, "Diana Prince", "manager")
        s5 == Banking_add_user(s4, eve, "Eve Adams", "loan_officer")
        s6 == Banking_add_user(s5, frank, "Frank Miller", "admin")
        s7 == Banking_add_bank(s6, <<"bank1">>, "First National Bank",
                               <<frank>>, <<diana>>)
        s8 == Banking_add_branch(s7, <<"branch1">>, "Downtown Branch",
                                 <<"bank1">>, diana, <<charlie>>)
        s9 == Banking_add_account(s8, <<"acc1">>, "1001", <<"branch1">>,
                                  <<alice>>, <<>>, 5000, "checking")
        s10 == Banking_add_account(s9, <<"acc2">>, "1002", <<"branch1">>,
                                   <<bob>>, <<alice>>, 3000, "savings")
        s11 == Banking_add_loan(s10, <<"loan1">>, <<"branch1">>, alice,
                                <<bob>>, eve, 50000, "pending", 35)
    IN Banking_setup_authorization_tuples(s11)

\* BankingDemo::new()
BankingDemo_new == Banking_setup_demo_data(BankingDemo_empty)

(***************************************************************************)
(* BankingDemo: permission evaluator                                       *)
(***************************************************************************)

\* AuthorizationRequest { user, relation, object }
Request(user, relation, object) ==
    [user |-> user, relation |-> relation, object |-> object]

\* AuthorizationResponse { allowed, reason: Some(reason) }
Response(allowed, reason) == [allowed |-> allowed, reason |-> reason]

\* Owners and co-owners count only while their user record says "customer".
Banking_is_account_authorized_user_by_role(self, account_id, user_id) ==
    IF has(self.accounts, to_string(account_id))
    THEN LET account == self.accounts[to_string(account_id)]
         IN  /\ has(self.users, to_string(user_id))
             /\ self.users[to_string(user_id)].role = "customer"
             /\ (contains(account.owners, to_string(user_id))
                 \/ contains(account.co_owners, to_string(user_id)))
    ELSE FALSE

Banking_is_account_authorized_user(self, account_id, user_id) ==
    IF has(self.accounts, to_string(account_id))
    THEN LET account == self.accounts[to_string(account_id)]
         IN  contains(account.owners, to_string(user_id))
             \/ contains(account.co_owners, to_string(user_id))
    ELSE FALSE

Banking_is_branch_teller(self, account_id, user_id) ==
    IF has(self.accounts, to_string(account_id))
    THEN LET account == self.accounts[to_string(account_id)]
         IN  IF has(self.branches, account.parent_branch_id)
             THEN contains(self.branches[account.parent_branch_id].tellers,
                           to_string(user_id))
             ELSE FALSE
    ELSE FALSE

\* The manager is looked up in the tuples list built at construction.
Banking_is_branch_manager_from_tuples(self, account_id, user_id) ==
    IF has(self.accounts, to_string(account_id))
    THEN BagIn(Tuple(format("user", to_string(user_id)), "manager",
                     format("branch",
                         self.accounts[to_string(account_id)].parent_branch_id)),
               self.tuples)
    ELSE FALSE

Banking_is_branch_manager(self, account_id, user_id) ==
    IF has(self.accounts, to_string(account_id))
    THEN LET account == self.accounts[to_string(account_id)]
         IN  IF has(self.branches, account.parent_branch_id)
             THEN self.branches[account.parent_branch_id].manager_id
                  = to_string(user_id)
             ELSE FALSE
    ELSE FALSE

\* Only tellers count as employees of the branch.
Banking_is_branch_employee_tellers_only(self, account_id, user_id) ==
    Banking_is_branch_teller(self, account_id, user_id)

Banking_is_branch_employee(self, account_id, user_id) ==
    Banking_is_branch_teller(self, account_id, user_id)
    \/ Banking_is_branch_manager(self, account_id, user_id)

Banking_is_loan_branch_manager(self, loan_id, user_id) ==
    IF has(self.loans, to_string(loan_id))
    THEN LET loan == self.loans[to_string(loan_id)]
         IN  IF has(self.branches, loan.parent_branch_id)
             THEN self.branches[loan.parent_branch_id].manager_id
                  = to_string(user_id)
             ELSE FALSE
    ELSE FALSE

\* A loan officer of any loan may view every account.
Banking_check_account_view_permission_loan_staff(self, request) ==
    LET account_id == split_nth1(request.object)
        user_id == split_nth1(request.user)
    IN  IF Banking_is_account_authorized_user(self, account_id, user_id)
        THEN Response(TRUE, "User is account owner/co-owner")
        ELSE IF Banking_is_branch_employee(self, account_id, user_id)
                \/ \E l \in DOMAIN self.loans :
                      self.loans[l].loan_officer_id = to_string(user_id)
        THEN Response(TRUE, "User is branch employee")
        ELSE Response(FALSE, "User not authorized to view account")

Banking_check_account_view_permission(self, request) ==
    LET account_id == split_nth1(request.object)
        user_id == split_nth1(request.user)
    IN  IF Banking_is_account_authorized_user(self, account_id, user_id)
        THEN Response(TRUE, "User is account owner/co-owner")
        ELSE IF Banking_is_branch_employee(self, account_id, user_id)
        THEN Response(TRUE, "User is branch employee")
        ELSE Response(FALSE, "User not authorized to view account")

Banking_check_account_deposit_permission(self, request) ==
    LET account_id == split_nth1(request.object)
        user_id == split_nth1(request.user)
    IN  IF Banking_is_account_authorized_user(self, account_id, user_id)
           \/ Banking_is_branch_teller(self, account_id, user_id)
        THEN Response(TRUE, "User authorized for deposits")
        ELSE Response(FALSE, "User not authorized for deposits")

\* Withdrawals open to every employee of the branch, tellers included.
Banking_check_account_withdraw_permission_employees(self, request) ==
    LET account_id == split_nth1(request.object)
        user_id == split_nth1(request.user)
    IN  IF Banking_is_account_authorized_user(self, account_id, user_id)
           \/ Banking_is_branch_employee(self, account_id, user_id)
        THEN Response(TRUE, "User authorized for withdrawals")
        ELSE Response(FALSE, "User not authorized for withdrawals")

Banking_check_account_withdraw_permission(self, request) ==
    LET account_id == split_nth1(request.object)
        user_id == split_nth1(request.user)
    IN  IF Banking_is_account_authorized_user(self, account_id, user_id)
           \/ Banking_is_branch_manager(self, account_id, user_id)
        THEN Response(TRUE, "User authorized for withdrawals")
        ELSE Response(FALSE, "User not authorized for withdrawals")

Banking_check_account_transfer_permission(self, request) ==
    LET account_id == split_nth1(request.object)
        user_id == split_nth1(request.user)
    IN  IF Banking_is_account_authorized_user(self, account_id, user_id)
        THEN Response(TRUE, "User authorized for transfers")
        ELSE Response(FALSE, "User not authorized for transfers")

Banking_check_loan_view_permission(self, request) ==
    LET loan_id == split_nth1(request.object)
        user_id == split_nth1(request.user)
    IN  IF has(self.loans, to_string(loan_id))
           /\ LET loan == self.loans[to_string(loan_id)]
              IN  \/ loan.borrower_id = to_string(user_id)
                  \/ contains(loan.co_borrowers, to_string(user_id))
                  \/ loan.loan_officer_id = to_string(user_id)
                  \/ Banking_is_loan_branch_manager(self, loan_id, user_id)
        THEN Response(TRUE, "User authorized to view loan")
        ELSE Response(FALSE, "User not authorized to view loan")

Banking_check_loan_approve_permission(self, request) ==
    LET loan_id == split_nth1(request.object)
        user_id == split_nth1(request.user)
    IN  IF has(self.loans, to_string(loan_id))
           /\ LET loan == self.loans[to_string(loan_id)]
              IN  \/ loan.loan_officer_id = to_string(user_id)
                  \/ Banking_is_loan_branch_manager(self, loan_id, user_id)
        THEN Response(TRUE, "User authorized to approve loan")
        ELSE Response(FALSE, "User not authorized to approve loan")

Banking_check_loan_modify_permission(self, request) ==
    LET loan_id == split_nth1(request.object)
        user_id == split_nth1(request.user)
    IN  IF has(self.loans, to_string(loan_id))
           /\ self.loans[to_string(loan_id)].loan_officer_id
              = to_string(user_id)
        THEN Response(TRUE, "User authorized to modify loan")
        ELSE Response(FALSE, "User not authorized to modify loan")

\* The (relation, object type) pairs BankingDemo::check_authorization matches.
Banking_dispatched ==
    {<<"can_view", "account">>, <<"can_deposit", "account">>,
     <<"can_withdraw", "account">>, <<"can_transfer", "account">>,
     <<"can_view", "loan">>, <<"can_approve", "loan">>,
     <<"can_modify", "loan">>}

Banking_check_authorization(self, request) ==
    LET arm == <<request.relation, split_next(request.object)>>
    IN  CASE arm = <<"can_view", "account">> ->
                Banking_check_account_view_permission(self, request)
          [] arm = <<"can_deposit", "account">> ->
                Banking_check_account_deposit_permission(self, request)
          [] arm = <<"can_withdraw", "account">> ->
                Banking_check_account_withdraw_permission(self, request)
          [] arm = <<"can_transfer", "account">> ->
                Banking_check_account_transfer_permission(self, request)
          [] arm = <<"can_view", "loan">> ->
                Banking_check_loan_view_permission(self, request)
          [] arm = <<"can_approve", "loan">> ->
                Banking_check_loan_approve_permission(self, request)
          [] arm = <<"can_modify", "loan">> ->
                Banking_check_loan_modify_permission(self, request)
          [] OTHER -> Response(FALSE, "Unknown permission")

\* BankingDemo::get_tuples
Banking_get_tuples(self) == self.tuples

(***************************************************************************)
(* GenAIRAGDemo: store                                                     *)
(***************************************************************************)

\* GenAIRAGDemo { users, organizations, ... } with empty collections.
GenAIRAGDemo_empty ==
    [users |-> EmptyMap, organizations |-> EmptyMap,
     knowledge_bases |-> EmptyMap, documents |-> EmptyMap,
     ai_models |-> EmptyMap, rag_sessions |-> EmptyMap,
     rag_queries |-> EmptyMap, tuples |-> EmptyBag]

GenAI_add_user(self, id, name, email, role) ==
    [self EXCEPT !.users =
        insert(self.users, id,
               [id |-> id, name |-> name, email |-> email, role |-> role])]

GenAI_add_organization(self, id, name, admins, members) ==
    [self EXCEPT !.organizations =
        insert(self.organizations, id,
               [id |-> id, name |-> name, admins |-> admins,
                members |-> members])]

GenAI_add_knowledge_base(self, id, name, description, parent_org_id, curators, contributors, readers) ==
    [self EXCEPT !.knowledge_bases =
        insert(self.knowledge_bases, id,
               [id |-> id, name |-> name, description |-> description,
                parent_org_id |-> parent_org_id, curators |-> curators,
                contributors |-> contributors, readers |-> readers])]

\* add_document with the reading of the clock it takes.
GenAI_add_document_at(self, id, title, content, parent_kb_id, owner_id, editors, viewers, tags, timestamp) ==
    [self EXCEPT !.documents =
        insert(self.documents, id,
               [id |-> id, title |-> title, content |-> content,
                parent_kb_id |-> parent_kb_id, owner_id |-> owner_id,
                editors |-> editors, viewers |-> viewers, tags |-> tags,
                created_at |-> timestamp, updated_at |-> timestamp])]

GenAI_add_document(self, id, title, content, parent_kb_id, owner_id, editors, viewers, tags) ==
    GenAI_add_document_at(self, id, title, content, parent_kb_id, owner_id, editors, viewers, tags, Now)

GenAI_add_ai_model(self, id, name, model_type, parent_org_id, operators, users) ==
    [self EXCEPT !.ai_models =
        insert(self.ai_models, id,
               [id |-> id, name |-> name, model_type |-> model_type,
                parent_org_id |-> parent_org_id, operators |-> operators,
                users |-> users,
                config |-> [max_tokens |-> "4000", temperature |-> "0.7"]])]

\* add_rag_session with the reading of the clock it takes.
GenAI_add_rag_session_at(self, id, name, parent_kb_id, parent_model_id, owner_id, participants, timestamp) ==
    [self EXCEPT !.rag_sessions =
        insert(self.rag_sessions, id,
               [id |-> id, name |-> name, parent_kb_id |-> parent_kb_id,
                parent_model_id |-> parent_model_id, owner_id |-> owner_id,
                participants |-> participants, created_at |-> timestamp,
                status |-> "active"])]

GenAI_add_rag_session(self, id, name, parent_kb_id, parent_model_id, owner_id, participants) ==
    GenAI_add_rag_session_at(self, id, name, parent_kb_id, parent_model_id, owner_id, participants, Now)

\* add_rag_query with the reading of the clock it takes.
GenAI_add_rag_query_at(self, id, parent_session_id, initiated_by, query_text, queried_documents, response_text, confidence_score, timestamp) ==
    [self EXCEPT !.rag_queries =
        insert(self.rag_queries, id,
               [id |-> id, parent_session_id |-> parent_session_id,
                initiated_by |-> initiated_by, query_text |-> query_text,
                queried_documents |-> queried_documents,
                response_text |-> response_text, timestamp |-> timestamp,
                confidence_score |-> confidence_score])]

GenAI_add_rag_query(self, id, parent_session_id, initiated_by, query_text, queried_documents, response_text, confidence_score) ==
    GenAI_add_rag_query_at(self, id, parent_session_id, initiated_by, query_text, queried_documents, response_text, confidence_score, Now)

\* The tuples pushed for one knowledge base.
GenAI_kb_pushes(kb) ==
    <<Tuple(format("organization", kb.parent_org_id), "parent_org",
            format("knowledge_base", kb.id))>>
    \o RelationPushes(kb.curators, "curator", format("knowledge_base", kb.id))
    \o RelationPushes(kb.contributors, "contributor",
                      format("knowledge_base", kb.id))
    \o RelationPushes(kb.readers, "reader", format("knowledge_base", kb.id))

\* The tuples pushed for one document.
GenAI_document_pushes(doc) ==
    <<Tuple(format("knowledge_base", doc.parent_kb_id), "parent_kb",
            format("document", doc.id)),
      Tuple(format("user", doc.owner_id), "owner",
            format("document", doc.id))>>
    \o RelationPushes(doc.editors, "editor", format("document", doc.id))
    \o RelationPushes(doc.viewers, "viewer", format("document", doc.id))

\* The tuples pushed for one AI model.
GenAI_model_pushes(model) ==
    <<Tuple(format("organization", model.parent_org_id), "parent_org",
            format("ai_model", model.id))>>
    \o RelationPushes(model.operators, "operator",
                      format("ai_model", model.id))
    \o RelationPushes(model.users, "user", format("ai_model", model.id))

\* The tuples pushed for one RAG session.
GenAI_session_pushes(session) ==
    <<Tuple(format("knowledge_base", session.parent_kb_id), "parent_kb",
            format("rag_session", session.id)),
      Tuple(format("ai_model", session.parent_model_id), "parent_model",
            format("rag_session", session.id)),
      Tuple(format("user", session.owner_id), "owner",
            format("rag_session", session.id))>>
    \o RelationPushes(session.participants, "participant",
                      format("rag_session", session.id))

\* The tuples pushed for one RAG query.
GenAI_query_pushes(query) ==
    <<Tuple(format("rag_session", query.parent_session_id), "parent_session",
            format("rag_query", query.id)),
      Tuple(format("user", query.initiated_by), "initiated_by",
            format("rag_query", query.id))>>
    \o [i \in 1..Len(query.queried_documents) |->
           Tuple(format("document", query.queried_documents[i]),
                 "queried_documents", format("rag_query", query.id))]

\* Pushes the tuples of org1 and of every other stored entity.
GenAI_setup_authorization_tuples(self) ==
    LET org1 == <<"org1">>
        orgPushes ==
            IF has(self.organizations, org1)
            THEN RelationPushes(self.organizations[org1].admins, "admin",
                                <<"organization", "org1">>)
                 \o RelationPushes(self.organizations[org1].members, "member",
                                   <<"organization", "org1">>)
            ELSE <<>>
    IN [self EXCEPT !.tuples =
          self.tuples
          (+) SeqToBag(orgPushes)
          (+) BagSum([k \in DOMAIN self.knowledge_bases |->
                         GenAI_kb_pushes(self.knowledge_bases[k])])
          (+) BagSum([k \in DOMAIN self.documents |->
                         GenAI_document_pushes(self.documents[k])])
          (+) BagSum([k \in DOMAIN self.ai_models |->
                         GenAI_model_pushes(self.ai_models[k])])
          (+) BagSum([k \in DOMAIN self.rag_sessions |->
                         GenAI_session_pushes(self.rag_sessions[k])])
          (+) BagSum([k \in DOMAIN self.rag_queries |->
                         GenAI_query_pushes(self.rag_queries[k])])]

\* The text returned for query1 by the demo data.
DemoResponseText == "To authenticate with the API, you need to use OAuth 2.0..."

\* The demo graph, then its tuples.
GenAI_setup_demo_data(self) ==
    LET s1 == GenAI_add_user(self, alice, "Alice Smith", "alice@company.com",
                             "curator")
        s2 == GenAI_add_user(s1, bob, "Bob Johnson", "bob@company.com",
                             "contributor")
        s3 == GenAI_add_user(s2, charlie, "Charlie Brown",
                             "charlie@company.com", "reader")
        s4 == GenAI_add_user(s3, diana, "Diana Prince", "diana@company.com",
                             "admin")
        s5 == GenAI_add_user(s4, eve, "Eve Adams", "eve@company.com",
                             "model_operator")
        s6 == GenAI_add_organization(s5, <<"org1">>, "TechCorp AI Division",
                                     <<diana>>, <<alice, bob, charlie, eve>>)
        s7 == GenAI_add_knowledge_base(s6, <<"kb1">>,
                  "Technical Documentation",
                  "Technical documentation and best practices", <<"org1">>,
                  <<alice>>, <<bob>>, <<charlie>>)
        s8 == GenAI_add_document(s7, <<"doc1">>, "API Documentation",
                  "Comprehensive API documentation for the system",
                  <<"kb1">>, alice, <<bob>>, <<charlie>>,
                  <<<<"api">>, <<"documentation">>>>)
        s9 == GenAI_add_document(s8, <<"doc2">>, "Security Guidelines",
                  "Security best practices and guidelines", <<"kb1">>, alice,
                  <<>>, <<bob, charlie>>, <<<<"security">>, <<"guidelines">>>>)
        s10 == GenAI_add_document(s9, <<"doc3">>, "Internal Process",
                  "Internal company processes - confidential", <<"kb1">>,
                  diana, <<>>, <<>>, <<<<"internal">>, <<"confidential">>>>)
        s11 == GenAI_add_ai_model(s10, <<"model1">>, "RAG-GPT-4",
                  "language_model", <<"org1">>, <<eve>>,
                  <<alice, bob, charlie>>)
        s12 == GenAI_add_rag_session(s11, <<"session1">>, "API Help Session",
                  <<"kb1">>, <<"model1">>, bob, <<charlie>>)
        s13 == GenAI_add_rag_query(s12, <<"query1">>, <<"session1">>, bob,
                  "How do I authenticate with the API?", <<<<"doc1">>>>,
                  DemoResponseText, 95)
    IN GenAI_setup_authorization_tuples(s13)

\* GenAIRAGDemo::new()
GenAIRAGDemo_new == GenAI_setup_demo_data(GenAIRAGDemo_empty)

(***************************************************************************)
(* GenAIRAGDemo: permission evaluator                                      *)
(***************************************************************************)

GenAI_is_kb_curator(self, kb_id, user_id) ==
    IF has(self.knowledge_bases, to_string(kb_id))
    THEN LET kb == self.knowledge_bases[to_string(kb_id)]
         IN  contains(kb.curators, to_string(user_id))
    ELSE FALSE

GenAI_is_kb_contributor(self, kb_id, user_id) ==
    IF has(self.knowledge_bases, to_string(kb_id))
    THEN LET kb == self.knowledge_bases[to_string(kb_id)]
         IN  contains(kb.contributors, to_string(user_id))
    ELSE FALSE

GenAI_is_kb_reader(self, kb_id, user_id) ==
    IF has(self.knowledge_bases, to_string(kb_id))
    THEN LET kb == self.knowledge_bases[to_string(kb_id)]
         IN  contains(kb.readers, to_string(user_id))
    ELSE FALSE

GenAI_is_org_member_for_kb(self, kb_id, user_id) ==
    IF has(self.knowledge_bases, to_string(kb_id))
    THEN LET kb == self.knowledge_bases[to_string(kb_id)]
         IN  IF has(self.organizations, kb.parent_org_id)
             THEN LET org == self.organizations[kb.parent_org_id]
                  IN  contains(org.members, to_string(user_id))
                      \/ contains(org.admins, to_string(user_id))
             ELSE FALSE
    ELSE FALSE

GenAI_is_org_admin_for_kb(self, kb_id, user_id) ==
    IF has(self.knowledge_bases, to_string(kb_id))
    THEN LET kb == self.knowledge_bases[to_string(kb_id)]
         IN  IF has(self.organizations, kb.parent_org_id)
             THEN LET org == self.organizations[kb.parent_org_id]
                  IN  contains(org.admins, to_string(user_id))
             ELSE FALSE
    ELSE FALSE

GenAI_is_document_owner(self, doc_id, user_id) ==
    IF has(self.documents, to_string(doc_id))
    THEN LET doc == self.documents[to_string(doc_id)]
         IN  doc.owner_id = to_string(user_id)
    ELSE FALSE

GenAI_is_document_editor(self, doc_id, user_id) ==
    IF has(self.documents, to_string(doc_id))
    THEN LET doc == self.documents[to_string(doc_id)]
         IN  contains(doc.editors, to_string(user_id))
    ELSE FALSE

GenAI_is_document_viewer(self, doc_id, user_id) ==
    IF has(self.documents, to_string(doc_id))
    THEN LET doc == self.documents[to_string(doc_id)]
         IN  contains(doc.viewers, to_string(user_id))
    ELSE FALSE

GenAI_is_model_operator(self, model_id, user_id) ==
    IF has(self.ai_models, to_string(model_id))
    THEN LET model == self.ai_models[to_string(model_id)]
         IN  contains(model.operators, to_string(user_id))
    ELSE FALSE

GenAI_is_model_user(self, model_id, user_id) ==
    IF has(self.ai_models, to_string(model_id))
    THEN LET model == self.ai_models[to_string(model_id)]
         IN  contains(model.users, to_string(user_id))
    ELSE FALSE

GenAI_is_org_member_for_model(self, model_id, user_id) ==
    IF has(self.ai_models, to_string(model_id))
    THEN LET model == self.ai_models[to_string(model_id)]
         IN  IF has(self.organizations, model.parent_org_id)
             THEN LET org == self.organizations[model.parent_org_id]
                  IN  contains(org.members, to_string(user_id))
                      \/ contains(org.admins, to_string(user_id))
             ELSE FALSE
    ELSE FALSE

GenAI_is_org_admin_for_model(self, model_id, user_id) ==
    IF has(self.ai_models, to_string(model_id))
    THEN LET model == self.ai_models[to_string(model_id)]
         IN  IF has(self.organizations, model.parent_org_id)
             THEN LET org == self.organizations[model.parent_org_id]
                  IN  contains(org.admins, to_string(user_id))
             ELSE FALSE
    ELSE FALSE

GenAI_is_session_owner(self, session_id, user_id) ==
    IF has(self.rag_sessions, to_string(session_id))
    THEN LET session == self.rag_sessions[to_string(session_id)]
         IN  session.owner_id = to_string(user_id)
    ELSE FALSE

GenAI_is_session_participant(self, session_id, user_id) ==
    IF has(self.rag_sessions, to_string(session_id))
    THEN LET session == self.rag_sessions[to_string(session_id)]
         IN  contains(session.participants, to_string(user_id))
    ELSE FALSE

GenAI_is_query_initiator(self, query_id, user_id) ==
    IF has(self.rag_queries, to_string(query_id))
    THEN LET query == self.rag_queries[to_string(query_id)]
         IN  query.initiated_by = to_string(user_id)
    ELSE FALSE

GenAI_check_kb_view_permission(self, request) ==
    LET kb_id == split_nth1(request.object)
        user_id == split_nth1(request.user)
    IN  IF GenAI_is_kb_curator(self, kb_id, user_id)
           \/ GenAI_is_kb_contributor(self, kb_id, user_id)
           \/ GenAI_is_kb_reader(self, kb_id, user_id)
        THEN Response(TRUE, "User has direct KB role")
        ELSE IF GenAI_is_org_member_for_kb(self, kb_id, user_id)
        THEN Response(TRUE, "User is organization member")
        ELSE Response(FALSE, "User not authorized to view knowledge base")

GenAI_check_kb_contribute_permission(self, request) ==
    LET kb_id == split_nth1(request.object)
        user_id == split_nth1(request.user)
    IN  IF GenAI_is_kb_curator(self, kb_id, user_id)
           \/ GenAI_is_kb_contributor(self, kb_id, user_id)
        THEN Response(TRUE, "User is curator or contributor")
        ELSE Response(FALSE,
                      "User not authorized to contribute to knowledge base")

GenAI_check_kb_curate_permission(self, request) ==
    LET kb_id == split_nth1(request.object)
        user_id == split_nth1(request.user)
    IN  IF GenAI_is_kb_curator(self, kb_id, user_id)
        THEN Response(TRUE, "User is curator")
        ELSE Response(FALSE, "User not authorized to curate knowledge base")

GenAI_check_kb_admin_permission(self, request) ==
    LET kb_id == split_nth1(request.object)
        user_id == split_nth1(request.user)
    IN  IF GenAI_is_kb_curator(self, kb_id, user_id)
           \/ GenAI_is_org_admin_for_kb(self, kb_id, user_id)
        THEN Response(TRUE, "User is curator or org admin")
        ELSE Response(FALSE, "User not authorized to admin knowledge base")

GenAI_can_view_kb_for_document(self, doc_id, user_id) ==
    IF has(self.documents, to_string(doc_id))
    THEN LET doc == self.documents[to_string(doc_id)]
             kb_request ==
                 Request(format("user", to_string(user_id)), "can_view",
                         format("knowledge_base", doc.parent_kb_id))
         IN  GenAI_check_kb_view_permission(self, kb_request).allowed
    ELSE FALSE

GenAI_can_contribute_to_kb_for_document(self, doc_id, user_id) ==
    IF has(self.documents, to_string(doc_id))
    THEN LET doc == self.documents[to_string(doc_id)]
             kb_request ==
                 Request(format("user", to_string(user_id)), "can_contribute",
                         format("knowledge_base", doc.parent_kb_id))
         IN  GenAI_check_kb_contribute_permission(self, kb_request).allowed
    ELSE FALSE

GenAI_can_curate_kb_for_document(self, doc_id, user_id) ==
    IF has(self.documents, to_string(doc_id))
    THEN LET doc == self.documents[to_string(doc_id)]
             kb_request ==
                 Request(format("user", to_string(user_id)), "can_curate",
                         format("knowledge_base", doc.parent_kb_id))
         IN  GenAI_check_kb_curate_permission(self, kb_request).allowed
    ELSE FALSE

\* A document with explicit viewers or editors is open to the listed users
\* only: no inheritance from the knowledge base once a list is non-empty.
GenAI_check_document_view_permission_listed_only(self, request) ==
    LET doc_id == split_nth1(request.object)
        user_id == split_nth1(request.user)
    IN  IF GenAI_is_document_owner(self, doc_id, user_id)
           \/ GenAI_is_document_editor(self, doc_id, user_id)
           \/ GenAI_is_document_viewer(self, doc_id, user_id)
        THEN Response(TRUE, "User has direct document access")
        ELSE IF has(self.documents, to_string(doc_id))
                /\ is_empty(self.documents[to_string(doc_id)].viewers)
                /\ is_empty(self.documents[to_string(doc_id)].editors)
                /\ GenAI_can_curate_kb_for_document(self, doc_id, user_id)
        THEN Response(TRUE, "User can curate parent knowledge base")
        ELSE Response(FALSE, "User not authorized to view document")

GenAI_check_document_view_permission(self, request) ==
    LET doc_id == split_nth1(request.object)
        user_id == split_nth1(request.user)
    IN  IF GenAI_is_document_owner(self, doc_id, user_id)
           \/ GenAI_is_document_editor(self, doc_id, user_id)
           \/ GenAI_is_document_viewer(self, doc_id, user_id)
        THEN Response(TRUE, "User has direct document access")
        ELSE IF has(self.documents, to_string(doc_id))
                /\ is_empty(self.documents[to_string(doc_id)].viewers)
                /\ is_empty(self.documents[to_string(doc_id)].editors)
                /\ GenAI_can_curate_kb_for_document(self, doc_id, user_id)
        THEN Response(TRUE, "User can curate parent knowledge base")
        ELSE IF has(self.documents, to_string(doc_id))
                /\ ~(is_empty(self.documents[to_string(doc_id)].viewers)
                     /\ is_empty(self.documents[to_string(doc_id)].editors))
                /\ GenAI_can_view_kb_for_document(self, doc_id, user_id)
        THEN Response(TRUE, "User can view parent knowledge base")
        ELSE Response(FALSE, "User not authorized to view document")

GenAI_check_document_edit_permission(self, request) ==
    LET doc_id == split_nth1(request.object)
        user_id == split_nth1(request.user)
    IN  IF GenAI_is_document_owner(self, doc_id, user_id)
           \/ GenAI_is_document_editor(self, doc_id, user_id)
        THEN Response(TRUE, "User is document owner or editor")
        ELSE IF GenAI_can_contribute_to_kb_for_document(self, doc_id, user_id)
        THEN Response(TRUE, "User can contribute to parent knowledge base")
        ELSE Response(FALSE, "User not authorized to edit document")

GenAI_check_document_delete_permission(self, request) ==
    LET doc_id == split_nth1(request.object)
        user_id == split_nth1(request.user)
    IN  IF GenAI_is_document_owner(self, doc_id, user_id)
        THEN Response(TRUE, "User is document owner")
        ELSE IF GenAI_can_curate_kb_for_document(self, doc_id, user_id)
        THEN Response(TRUE, "User can curate parent knowledge base")
        ELSE Response(FALSE, "User not authorized to delete document")

GenAI_check_document_rag_permission(self, request) ==
    GenAI_check_document_view_permission(self, request)

GenAI_check_model_use_permission(self, request) ==
    LET model_id == split_nth1(request.object)
        user_id == split_nth1(request.user)
    IN  IF GenAI_is_model_operator(self, model_id, user_id)
           \/ GenAI_is_model_user(self, model_id, user_id)
        THEN Response(TRUE, "User has direct model access")
        ELSE IF GenAI_is_org_member_for_model(self, model_id, user_id)
        THEN Response(TRUE, "User is organization member")
        ELSE Response(FALSE, "User not authorized to use AI model")

GenAI_check_model_configure_permission(self, request) ==
    LET model_id == split_nth1(request.object)
        user_id == split_nth1(request.user)
    IN  IF GenAI_is_model_operator(self, model_id, user_id)
           \/ GenAI_is_org_admin_for_model(self, model_id, user_id)
        THEN Response(TRUE, "User is model operator or org admin")
        ELSE Response(FALSE, "User not authorized to configure AI model")

GenAI_check_model_admin_permission(self, request) ==
    LET model_id == split_nth1(request.object)
        user_id == split_nth1(request.user)
    IN  IF GenAI_is_model_operator(self, model_id, user_id)
        THEN Response(TRUE, "User is model operator")
        ELSE Response(FALSE, "User not authorized to admin AI model")

GenAI_check_session_view_permission(self, request) ==
    LET session_id == split_nth1(request.object)
        user_id == split_nth1(request.user)
    IN  IF GenAI_is_session_owner(self, session_id, user_id)
           \/ GenAI_is_session_participant(self, session_id, user_id)
        THEN Response(TRUE, "User is session owner or participant")
        ELSE Response(FALSE, "User not authorized to view RAG session")

GenAI_check_session_query_permission(self, request) ==
    GenAI_check_session_view_permission(self, request)

GenAI_can_view_session_kb(self, session_id, user_id) ==
    IF has(self.rag_sessions, to_string(session_id))
    THEN LET session == self.rag_sessions[to_string(session_id)]
             kb_request ==
                 Request(format("user", to_string(user_id)), "can_view",
                         format("knowledge_base", session.parent_kb_id))
         IN  GenAI_check_kb_view_permission(self, kb_request).allowed
    ELSE FALSE

GenAI_check_session_document_access_permission(self, request) ==
    LET session_id == split_nth1(request.object)
        user_id == split_nth1(request.user)
    IN  IF (GenAI_is_session_owner(self, session_id, user_id)
            \/ GenAI_is_session_participant(self, session_id, user_id))
           /\ GenAI_can_view_session_kb(self, session_id, user_id)
        THEN Response(TRUE, "User can query session and view KB documents")
        ELSE Response(FALSE,
                 "User not authorized to access documents in RAG session")

GenAI_can_view_query_session(self, query_id, user_id) ==
    IF has(self.rag_queries, to_string(query_id))
    THEN LET query == self.rag_queries[to_string(query_id)]
             session_request ==
                 Request(format("user", to_string(user_id)), "can_view",
                         format("rag_session", query.parent_session_id))
         IN  GenAI_check_session_view_permission(self, session_request).allowed
    ELSE FALSE

GenAI_check_query_view_permission(self, request) ==
    LET query_id == split_nth1(request.object)
        user_id == split_nth1(request.user)
    IN  IF GenAI_is_query_initiator(self, query_id, user_id)
        THEN Response(TRUE, "User initiated the query")
        ELSE IF GenAI_can_view_query_session(self, query_id, user_id)
        THEN Response(TRUE, "User can view parent session")
        ELSE Response(FALSE, "User not authorized to view RAG query")

GenAI_can_access_all_queried_documents(self, query_id, user_id) ==
    IF has(self.rag_queries, to_string(query_id))
    THEN LET query == self.rag_queries[to_string(query_id)]
         IN  \A i \in 1..Len(query.queried_documents) :
                LET doc_request ==
                        Request(format("user", to_string(user_id)),
                                "can_use_in_rag",
                                format("document", query.queried_documents[i]))
                IN  GenAI_check_document_rag_permission(self, doc_request)
                        .allowed
    ELSE FALSE

GenAI_check_query_results_permission(self, request) ==
    LET query_id == split_nth1(request.object)
        user_id == split_nth1(request.user)
    IN  IF GenAI_check_query_view_permission(self, request).allowed
           /\ GenAI_can_access_all_queried_documents(self, query_id, user_id)
        THEN Response(TRUE,
                 "User can view query and access all referenced documents")
        ELSE Response(FALSE, "User not authorized to access query results")

\* The (relation, object type) pairs GenAIRAGDemo::check_authorization matches.
GenAI_dispatched ==
    {<<"can_view", "knowledge_base">>,
     <<"can_contribute", "knowledge_base">>,
     <<"can_curate", "knowledge_base">>,
     <<"can_admin", "knowledge_base">>,
     <<"can_view", "document">>,
     <<"can_edit", "document">>,
     <<"can_delete", "document">>,
     <<"can_use_in_rag", "document">>,
     <<"can_use", "ai_model">>,
     <<"can_configure", "ai_model">>,
     <<"can_admin", "ai_model">>,
     <<"can_view", "rag_session">>,
     <<"can_query", "rag_session">>,
     <<"can_access_documents", "rag_session">>,
     <<"can_view", "rag_query">>,
     <<"can_access_results", "rag_query">>}

\* A dispatch on the object type alone, whatever the relation.
GenAI_check_authorization_by_type(self, request) ==
    IF split_next(request.object) = "knowledge_base"
    THEN GenAI_check_kb_view_permission(self, request)
    ELSE Response(FALSE, "Unknown permission")

GenAI_check_authorization(self, request) ==
    LET arm == <<request.relation, split_next(request.object)>>
    IN  CASE arm = <<"can_view", "knowledge_base">> ->
                GenAI_check_kb_view_permission(self, request)
          [] arm = <<"can_contribute", "knowledge_base">> ->
                GenAI_check_kb_contribute_permission(self, request)
          [] arm = <<"can_curate", "knowledge_base">> ->
                GenAI_check_kb_curate_permission(self, request)
          [] arm = <<"can_admin", "knowledge_base">> ->
                GenAI_check_kb_admin_permission(self, request)
          [] arm = <<"can_view", "document">> ->
                GenAI_check_document_view_permission(self, request)
          [] arm = <<"can_edit", "document">> ->
                GenAI_check_document_edit_permission(self, request)
          [] arm = <<"can_delete", "document">> ->
                GenAI_check_document_delete_permission(self, request)
          [] arm = <<"can_use_in_rag", "document">> ->
                GenAI_check_document_rag_permission(self, request)
          [] arm = <<"can_use", "ai_model">> ->
                GenAI_check_model_use_permission(self, request)
          [] arm = <<"can_configure", "ai_model">> ->
                GenAI_check_model_configure_permission(self, request)
          [] arm = <<"can_admin", "ai_model">> ->
                GenAI_check_model_admin_permission(self, request)
          [] arm = <<"can_view", "rag_session">> ->
                GenAI_check_session_view_permission(self, request)
          [] arm = <<"can_query", "rag_session">> ->
                GenAI_check_session_query_permission(self, request)
          [] arm = <<"can_access_documents", "rag_session">> ->
                GenAI_check_session_document_access_permission(self, request)
          [] arm = <<"can_view", "rag_query">> ->
                GenAI_check_query_view_permission(self, request)
          [] arm = <<"can_access_results", "rag_query">> ->
                GenAI_check_query_results_permission(self, request)
          [] OTHER -> Response(FALSE, "Unknown permission")

\* GenAIRAGDemo::get_tuples
GenAI_get_tuples(self) == self.tuples

\* The documents kept by the filter of get_documents_for_user, as their keys.
GenAI_get_documents_for_user(self, user_id) ==
    {k \in DOMAIN self.documents :
        GenAI_check_authorization(self,
            Request(format("user", user_id), "can_view",
                    format("document", self.documents[k].id))).allowed}

\* The sentinel returned when the results check denies.
AccessDenied == "Access denied: Insufficient permissions to view query results"

\* Option<String>: Some(text) is the one-element sequence, None the empty one.
Some(text) == <<text>>

GenAI_get_filtered_rag_response(self, query_id, user_id) ==
    IF has(self.rag_queries, query_id)
    THEN IF GenAI_check_authorization(self,
                Request(format("user", user_id), "can_access_results",
                        format("rag_query", query_id))).allowed
         THEN Some(self.rag_queries[query_id].response_text)
         ELSE Some(AccessDenied)
    ELSE None

(***************************************************************************)
(* Number of check_*_permission calls made by one check_authorization      *)
(***************************************************************************)

\* Banking: the dispatched function calls no other permission check.
Banking_permission_checks(self, request) ==
    IF <<request.relation, split_next(request.object)>> \in Banking_dispatched
    THEN 1 ELSE 0

\* check_kb_*_permission call helpers only.
GenAI_kb_checks(self, request) == 1

\* The knowledge-base check calls back into the check of every document.
GenAI_document_view_checks_rescanning(self, request) ==
    1 + 2 * Cardinality(DOMAIN self.documents)

\* check_document_view_permission, and the knowledge-base check it delegates
\* to when the user has no direct relation and the document is stored.
GenAI_document_view_checks(self, request) ==
    LET doc_id == split_nth1(request.object)
        user_id == split_nth1(request.user)
    IN  IF GenAI_is_document_owner(self, doc_id, user_id)
           \/ GenAI_is_document_editor(self, doc_id, user_id)
           \/ GenAI_is_document_viewer(self, doc_id, user_id)
        THEN 1
        ELSE IF has(self.documents, to_string(doc_id))
        THEN 1 + GenAI_kb_checks(self, request)
        ELSE 1

\* check_document_edit_permission / check_document_delete_permission.
GenAI_document_edit_checks(self, request, direct) ==
    IF direct THEN 1
    ELSE IF has(self.documents, to_string(split_nth1(request.object)))
    THEN 1 + GenAI_kb_checks(self, request)
    ELSE 1

\* check_session_document_access_permission: the knowledge-base check is
\* reached only by the owner or a participant of a stored session.
GenAI_session_access_checks(self, request) ==
    LET session_id == split_nth1(request.object)
        user_id == split_nth1(request.user)
    IN  IF GenAI_is_session_owner(self, session_id, user_id)
           \/ GenAI_is_session_participant(self, session_id, user_id)
        THEN 1 + GenAI_kb_checks(self, request)
        ELSE 1

\* check_query_view_permission, and the session check it delegates to.
GenAI_query_view_checks(self, request) ==
    LET query_id == split_nth1(request.object)
        user_id == split_nth1(request.user)
    IN  IF GenAI_is_query_initiator(self, query_id, user_id) THEN 1
        ELSE IF has(self.rag_queries, to_string(query_id)) THEN 2
        ELSE 1

RECURSIVE GenAI_queried_documents_checks(_, _, _, _)
\* The loop of can_access_all_queried_documents from index i: one rag check
\* and the view check under it per document, up to the first denial.
GenAI_queried_documents_checks(self, docs, user_id, i) ==
    IF i > Len(docs) THEN 0
    ELSE LET doc_request ==
                 Request(format("user", to_string(user_id)), "can_use_in_rag",
                         format("document", docs[i]))
             here == 1 + GenAI_document_view_checks(self, doc_request)
         IN  IF GenAI_check_document_rag_permission(self, doc_request).allowed
             THEN here
                  + GenAI_queried_documents_checks(self, docs, user_id, i + 1)
             ELSE here

\* check_query_results_permission: the view check, then the loop if it allows.
GenAI_query_results_checks(self, request) ==
    LET query_id == split_nth1(request.object)
        user_id == split_nth1(request.user)
    IN  1 + GenAI_query_view_checks(self, request)
        + (IF GenAI_check_query_view_permission(self, request).allowed
              /\ has(self.rag_queries, to_string(query_id))
           THEN GenAI_queried_documents_checks(self,
                    self.rag_queries[to_string(query_id)].queried_documents,
                    user_id, 1)
           ELSE 0)

GenAI_permission_checks(self, request) ==
    LET arm == <<request.relation, split_next(request.object)>>
        doc_id == split_nth1(request.object)
        user_id == split_nth1(request.user)
    IN  CASE arm[2] = "knowledge_base" /\ arm \in GenAI_dispatched ->
                GenAI_kb_checks(self, request)
          [] arm = <<"can_view", "document">> ->
                GenAI_document_view_checks(self, request)
          [] arm = <<"can_edit", "document">> ->
                GenAI_document_edit_checks(self, request,
                    GenAI_is_document_owner(self, doc_id, user_id)
                    \/ GenAI_is_document_editor(self, doc_id, user_id))
          [] arm = <<"can_delete", "document">> ->
                GenAI_document_edit_checks(self, request,
                    GenAI_is_document_owner(self, doc_id, user_id))
          [] arm = <<"can_use_in_rag", "document">> ->
                1 + GenAI_document_view_checks(self, request)
          [] arm[2] = "ai_model" /\ arm \in GenAI_dispatched -> 1
          [] arm = <<"can_view", "rag_session">> -> 1
          [] arm = <<"can_query", "rag_session">> -> 2
          [] arm = <<"can_access_documents", "rag_session">> ->
                GenAI_session_access_checks(self, request)
          [] arm = <<"can_view", "rag_query">> ->
                GenAI_query_view_checks(self, request)
          [] arm = <<"can_access_results", "rag_query">> ->
                GenAI_query_results_checks(self, request)
          [] OTHER -> 0

(***************************************************************************)
(* Explored inputs                                                         *)
(***************************************************************************)

\* "user:<id>"
user(id) == format("user", id)

\* Subjects of the explored requests.
BankingRequestUsers == {user(alice), user(diana), user(eve)}

\* (relation, object) of the explored banking requests: every dispatched
\* pair on a stored object, some on an object string without separator, and
\* pairs that are not dispatched.
BankingRequestTargets ==
    ({"can_view", "can_deposit", "can_withdraw", "can_transfer"}
        \X {<<"account", "acc1">>})
    \cup ({"can_view", "can_approve", "can_modify"} \X {<<"loan", "loan1">>})
    \cup {<<"can_view", <<"account">>>>,
          <<"can_view", <<"loan">>>>,
          <<"can_close", <<"account", "acc1">>>>,
          <<"can_view", <<"branch", "branch1">>>>}

\* The explored banking requests; zed is in no users map, and in the last
\* two the user string has no ':' separator.
BankingRequests ==
    {Request(u, t[1], t[2]) : u \in BankingRequestUsers,
                              t \in BankingRequestTargets}
    \cup {Request(user(zed), "can_view", <<"loan", "loan1">>),
          Request(user(zed), "can_modify", <<"loan", "loan1">>)}
    \cup {Request(alice, "can_view", <<"account", "acc1">>),
          Request(alice, "can_view", <<"loan", "loan1">>)}
    \cup {Request(user(charlie), "can_view", <<"account", "acc1">>),
          Request(user(charlie), "can_withdraw", <<"account", "acc1">>)}

GenAIRequestUsers == {user(bob), user(eve)}

\* (relation, object) of the explored GenAI requests.
GenAIRequestTargets ==
    ({"can_view", "can_contribute", "can_curate", "can_admin"}
        \X {<<"knowledge_base", "kb1">>})
    \cup ({"can_view", "can_edit", "can_delete", "can_use_in_rag"}
        \X {<<"document", "doc1">>})
    \cup ({"can_use", "can_configure", "can_admin"}
        \X {<<"ai_model", "model1">>})
    \cup ({"can_view", "can_query", "can_access_documents"}
        \X {<<"rag_session", "session1">>})
    \cup ({"can_view", "can_access_results"} \X {<<"rag_query", "query1">>})
    \cup {<<"can_view", <<"document", "doc3">>>>,
          <<"can_view", <<"document">>>>,
          <<"can_edit", <<"knowledge_base", "kb1">>>>}

\* The explored GenAI requests; alice is the curator of kb1, zed is in no
\* users map, and in the last two the user string has no ':' separator.
GenAIRequests ==
    {Request(u, t[1], t[2]) : u \in GenAIRequestUsers,
                              t \in GenAIRequestTargets}
    \cup {Request(user(alice), t[1], t[2]) :
            t \in {<<"can_view", <<"document", "doc3">>>>,
                   <<"can_curate", <<"knowledge_base", "kb1">>>>,
                   <<"can_access_results", <<"rag_query", "query1">>>>}}
    \cup {Request(user(zed), t[1], t[2]) :
            t \in {<<"can_view", <<"rag_session", "session1">>>>,
                   <<"can_view", <<"document", "doc1">>>>,
                   <<"can_view", <<"rag_query", "query1">>>>}}
    \cup {Request(bob, "can_view", <<"document", "doc1">>),
          Request(bob, "can_view", <<"knowledge_base", "kb1">>)}
    \cup {Request(user(bob), "can_edit", <<"document", "doc3">>)}

(***************************************************************************)
(* State machine                                                           *)
(***************************************************************************)

\* Each demo is a separate program: one of the two structs is constructed.
Init ==
    /\ \/ banking = BankingDemo_new /\ genai = NotConstructed
       \/ genai = GenAIRAGDemo_new /\ banking = NotConstructed
    /\ last = NoOperation
    /\ ops = 0
    /\ operator = NotStarted

\* A store mutation of the banking demo: &mut self, nothing is returned.
BankingMutation(next) ==
    /\ Constructed(banking)
    /\ ops < MaxOps
    /\ banking' = next
    /\ ops' = ops + 1
    /\ last' = NoOperation
    /\ UNCHANGED <<genai, operator>>

\* A store mutation of the GenAI demo.
GenAIMutation(next) ==
    /\ Constructed(genai)
    /\ ops < MaxOps
    /\ genai' = next
    /\ ops' = ops + 1
    /\ last' = NoOperation
    /\ UNCHANGED <<banking, operator>>

\* A read operation that records each call in the store.
Returns_recording(op, request, response) ==
    /\ last' = [op |-> op, request |-> request, response |-> response]
    /\ banking' = IF Constructed(banking)
                  THEN [banking EXCEPT !.tuples =
                           @ (+) SetToBag({Tuple(<<"audit">>, op, request)})]
                  ELSE banking
    /\ genai' = IF Constructed(genai)
                THEN [genai EXCEPT !.tuples =
                         @ (+) SetToBag({Tuple(<<"audit">>, op, request)})]
                ELSE genai
    /\ UNCHANGED <<ops, operator>>

\* An operation taking &self: the structs are left alone, a value is returned.
Returns(op, request, response) ==
    /\ last' = [op |-> op, request |-> request, response |-> response]
    /\ UNCHANGED <<banking, genai, ops, operator>>

BankingAddUser ==
    \E id \in {alice, zed}, role \in {"manager"} :
        BankingMutation(Banking_add_user(banking, id, "Renamed", role))

BankingAddBank ==
    \E managers \in {<<diana, alice>>} :
        BankingMutation(Banking_add_bank(banking, <<"bank1">>,
                            "First National Bank", <<frank>>, managers))

BankingAddBranch ==
    \E args \in {<<None, <<charlie>>>>, <<eve, <<charlie>>>>,
                <<eve, <<charlie, eve>>>>} :
        LET manager_id == args[1]
            tellers == args[2]
        IN  BankingMutation(Banking_add_branch(banking, <<"branch1">>,
                                "Downtown Branch", <<"bank1">>, manager_id,
                                tellers))

BankingAddAccount ==
    \E args \in {<<<<"acc1">>, <<"branch1">>>>, <<<<"acc1">>, <<"branch9">>>>,
                <<EmptyString, <<"branch1">>>>},
       owners \in {<<alice, eve>>},
       co_owners \in {<<>>} :
        LET id == args[1]
            parent_branch_id == args[2]
        IN  BankingMutation(Banking_add_account(banking, id, "1001",
                                parent_branch_id, owners, co_owners, 5000,
                                "checking"))

BankingAddLoan ==
    \E args \in {<<<<"branch1">>, eve>>, <<<<"branch9">>, eve>>,
                <<<<"branch1">>, zed>>} :
        LET parent_branch_id == args[1]
            loan_officer_id == args[2]
        IN  BankingMutation(Banking_add_loan(banking, <<"loan1">>,
                                parent_branch_id, alice, <<bob>>,
                                loan_officer_id, 50000, "pending", 35))

BankingAddTransaction ==
    BankingMutation(Banking_add_transaction(banking, <<"tx1">>, None,
                        <<"acc1">>, alice, 100, "deposit"))

BankingCheckAuthorization ==
    /\ Constructed(banking)
    /\ \E request \in BankingRequests :
          Returns("check_authorization", request,
                  Banking_check_authorization(banking, request))

BankingGetTuples ==
    /\ Constructed(banking)
    /\ Returns("get_tuples", <<>>, Banking_get_tuples(banking))

GenAIAddUser ==
    \E id \in {bob}, role \in {"admin"} :
        GenAIMutation(GenAI_add_user(genai, id, "Renamed", "r@company.com",
                                     role))

GenAIAddOrganization ==
    \E members \in {<<>>, <<eve>>} :
        GenAIMutation(GenAI_add_organization(genai, <<"org1">>,
                          "TechCorp AI Division", <<diana>>, members))

GenAIAddKnowledgeBase ==
    \E args \in {<<<<"org1">>, <<alice>>>>, <<<<"org1">>, <<alice, eve>>>>,
                <<<<"org9">>, <<alice>>>>} :
        LET parent_org_id == args[1]
            curators == args[2]
        IN  GenAIMutation(GenAI_add_knowledge_base(genai, <<"kb1">>,
                              "Technical Documentation",
                              "Technical documentation and best practices",
                              parent_org_id,
                              curators, <<bob>>, <<charlie>>))

GenAIAddDocument ==
    \E args \in {<<<<"doc3">>, <<"kb1">>, <<>>>>,
                <<<<"doc3">>, <<"kb1">>, <<charlie>>>>,
                <<<<"doc3">>, <<"kb1", "x">>, <<>>>>,
                <<<<"doc1">>, <<"kb1", "x">>, <<charlie>>>>,
                <<<<"doc9", "x">>, <<"kb1">>, <<>>>>} :
        LET id == args[1]
            parent_kb_id == args[2]
            viewers == args[3]
        IN  GenAIMutation(GenAI_add_document(genai, id, "Title", "Content",
                              parent_kb_id, diana, <<>>, viewers, <<>>))

GenAIAddAiModel ==
    \E parent_org_id \in {<<"org9">>} :
        GenAIMutation(GenAI_add_ai_model(genai, <<"model1">>, "RAG-GPT-4",
                          "language_model", parent_org_id, <<eve>>,
                          <<alice>>))

GenAIAddRagSession ==
    \E args \in {<<<<"kb9">>, bob>>, <<<<"kb9">>, zed>>,
                <<<<"kb1", "x">>, bob>>} :
        LET parent_kb_id == args[1]
            owner_id == args[2]
        IN  GenAIMutation(GenAI_add_rag_session(genai, <<"session1">>,
                              "API Help Session", parent_kb_id,
                              <<"model1">>, owner_id, <<charlie>>))

GenAIAddRagQuery ==
    \E args \in {<<<<"session1">>, <<<<"doc1">>, <<"doc3">>>>>>,
                <<<<"session9">>, <<<<"doc1">>, <<"doc3">>>>>>,
                <<<<"session1">>, <<<<"doc9">>>>>>,
                <<<<"session1">>, <<<<"doc1", "x">>>>>>} :
        LET parent_session_id == args[1]
            queried_documents == args[2]
        IN  GenAIMutation(GenAI_add_rag_query(genai, <<"query1">>,
                              parent_session_id, alice, "How?",
                              queried_documents, DemoResponseText, 95))

GenAICheckAuthorization ==
    /\ Constructed(genai)
    /\ \E request \in GenAIRequests :
          Returns("check_authorization", request,
                  GenAI_check_authorization(genai, request))

GenAIGetTuples ==
    /\ Constructed(genai)
    /\ Returns("get_tuples", <<>>, GenAI_get_tuples(genai))

GenAIGetDocumentsForUser ==
    /\ Constructed(genai)
    /\ \E user_id \in {alice, bob, diana} :
          Returns("get_documents_for_user", user_id,
                  GenAI_get_documents_for_user(genai, user_id))

GenAIGetFilteredRagResponse ==
    /\ Constructed(genai)
    /\ \E query_id \in {<<"query1">>, <<"query9">>}, user_id \in {bob} :
          Returns("get_filtered_rag_response", <<query_id, user_id>>,
                  GenAI_get_filtered_rag_response(genai, query_id, user_id))

Next ==
    \/ BankingAddUser
    \/ BankingAddBank
    \/ BankingAddBranch
    \/ BankingAddAccount
    \/ BankingAddLoan
    \/ BankingAddTransaction
    \/ BankingCheckAuthorization
    \/ BankingGetTuples
    \/ GenAIAddUser
    \/ GenAIAddOrganization
    \/ GenAIAddKnowledgeBase
    \/ GenAIAddDocument
    \/ GenAIAddAiModel
    \/ GenAIAddRagSession
    \/ GenAIAddRagQuery
    \/ GenAICheckAuthorization
    \/ GenAIGetTuples
    \/ GenAIGetDocumentsForUser
    \/ GenAIGetFilteredRagResponse

Spec == Init /\ [][Next]_vars

(***************************************************************************)
(* Properties                                                              *)
(***************************************************************************)

\* The struct of the program that is running.
Demo == IF Constructed(banking) THEN banking ELSE genai

\* check_authorization of the program that is running.
check_authorization(self, request) ==
    IF Constructed(banking)
    THEN Banking_check_authorization(self, request)
    ELSE GenAI_check_authorization(self, request)

\* The last operation was check_authorization, and it has returned.
Checked == last.op = "check_authorization"

\* C1: a request whose (relation, object type) pair is not one of the pairs
\* check_authorization dispatches (7 in banking, 16 in GenAI) is denied,
\* whatever the subject and the relations the subject holds.
C1_UndispatchedPairDenied ==
    (Checked
     /\ <<last.request.relation, split_next(last.request.object)>>
           \notin (IF Constructed(banking) THEN Banking_dispatched
                   ELSE GenAI_dispatched))
    => ~last.response.allowed

\* C1 witness: bob, contributor of kb1, was denied the undispatched pair
\* (can_edit, knowledge_base); eve was denied (can_close, account) on an
\* account she owns.
C1_Witness ==
    /\ Checked
    /\ ~last.response.allowed
    /\ \/ /\ Constructed(genai)
          /\ last.request
                = Request(user(bob), "can_edit", <<"knowledge_base", "kb1">>)
          /\ GenAI_is_kb_contributor(genai, "kb1", "bob")
       \/ /\ Constructed(banking)
          /\ last.request
                = Request(user(eve), "can_close", <<"account", "acc1">>)
          /\ Banking_is_account_authorized_user(banking, "acc1", "eve")

\* The subject and object ids and the object type check_authorization parses.
SubjectId == split_nth1(last.request.user)

ObjectId == split_nth1(last.request.object)

ObjectType == split_next(last.request.object)

\* C2: confidential default. A stored document whose viewers and editors are
\* both empty denies can_view to every subject that is neither its owner nor
\* a curator of the knowledge base its parent_kb_id names.
C2_ConfidentialDefault ==
    (/\ Checked
     /\ Constructed(genai)
     /\ last.request.relation = "can_view"
     /\ ObjectType = "document"
     /\ has(genai.documents, to_string(ObjectId))
     /\ LET doc == genai.documents[to_string(ObjectId)]
        IN  /\ is_empty(doc.viewers)
            /\ is_empty(doc.editors)
            /\ doc.owner_id # to_string(SubjectId)
            /\ ~(/\ has(genai.knowledge_bases, doc.parent_kb_id)
                 /\ contains(genai.knowledge_bases[doc.parent_kb_id].curators,
                             to_string(SubjectId))))
    => ~last.response.allowed

\* The user lists and single-user fields of each kind of entity: the
\* relations a subject can hold directly on an entity.
RelationLists ==
    [banks |-> {"admins", "managers"}, branches |-> {"tellers"},
     accounts |-> {"owners", "co_owners"}, loans |-> {"co_borrowers"},
     organizations |-> {"admins", "members"},
     knowledge_bases |-> {"curators", "contributors", "readers"},
     documents |-> {"editors", "viewers"},
     ai_models |-> {"operators", "users"},
     rag_sessions |-> {"participants"}, rag_queries |-> {}]

RelationFields ==
    [banks |-> {}, branches |-> {"manager_id"}, accounts |-> {},
     loans |-> {"borrower_id", "loan_officer_id"}, organizations |-> {},
     knowledge_bases |-> {}, documents |-> {"owner_id"}, ai_models |-> {},
     rag_sessions |-> {"owner_id"}, rag_queries |-> {"initiated_by"}]

\* The map an object type is stored in, the field holding its parent id and
\* the map the parent is stored in.
Stored ==
    [account |-> [map |-> "accounts", parent |-> "parent_branch_id", into |-> "branches"],
     loan |-> [map |-> "loans", parent |-> "parent_branch_id", into |-> "branches"],
     knowledge_base |-> [map |-> "knowledge_bases", parent |-> "parent_org_id", into |-> "organizations"],
     document |-> [map |-> "documents", parent |-> "parent_kb_id", into |-> "knowledge_bases"],
     ai_model |-> [map |-> "ai_models", parent |-> "parent_org_id", into |-> "organizations"],
     rag_session |-> [map |-> "rag_sessions", parent |-> "parent_kb_id", into |-> "knowledge_bases"],
     rag_query |-> [map |-> "rag_queries", parent |-> "parent_session_id", into |-> "rag_sessions"]]

\* The subject holds a relation directly on the stored entity map[key].
HoldsDirectly(self, map, key, subject) ==
    /\ key \in DOMAIN self[map]
    /\ \/ \E f \in RelationLists[map] : contains(self[map][key][f], subject)
       \/ \E f \in RelationFields[map] : self[map][key][f] = subject

\* The object of the last request resolves to a stored entity.
ObjectResolves ==
    /\ ObjectType \in DOMAIN Stored
    /\ Stored[ObjectType].map \in DOMAIN Demo
    /\ to_string(ObjectId) \in DOMAIN Demo[Stored[ObjectType].map]

\* The parent id of the (resolving) object names no stored entity.
ParentDangling ==
    LET t == Stored[ObjectType]
    IN  Demo[t.map][to_string(ObjectId)][t.parent] \notin DOMAIN Demo[t.into]

\* C3: fail closed on dangling references. A check on a dispatched pair whose
\* object id names no stored entity is denied; one whose object resolves but
\* whose parent id names no stored entity is allowed only to a subject that
\* holds a relation directly on the object, and never for
\* can_access_documents, which needs the parent; a can_access_results check
\* on a query citing a document id that names no stored document is denied.
C3_FailClosedOnDangling ==
    (Checked /\ last.response.allowed /\ ObjectType \in DOMAIN Stored)
    => /\ ObjectResolves
       /\ ParentDangling
             => HoldsDirectly(Demo, Stored[ObjectType].map,
                              to_string(ObjectId), to_string(SubjectId))
       /\ ~(last.request.relation = "can_access_documents" /\ ParentDangling)
       /\ (last.request.relation = "can_access_results"
           /\ ObjectType = "rag_query")
             => LET docs == genai.rag_queries[to_string(ObjectId)].queried_documents
                IN  \A i \in 1..Len(docs) : has(genai.documents, docs[i])

\* new is old with one user appended to one relation list of one entity.
ExtendsOneList(old, new) ==
    \E map \in DOMAIN RelationLists \cap DOMAIN old :
       \E key \in DOMAIN old[map] \cap DOMAIN new[map] :
          \E f \in RelationLists[map] :
             LET then == old[map][key][f]
                 now == new[map][key][f]
             IN  /\ Len(now) = Len(then) + 1
                 /\ new = [old EXCEPT ![map][key][f] = Append(then, now[Len(now)])]

\* C4: monotonicity of grants. If a check was allowed and the next step only
\* appends a user to one relation list of one stored entity, the same check
\* on the new graph is still allowed.
C4_GrantsMonotonic ==
    [][(Checked /\ last.response.allowed /\ ExtendsOneList(Demo, Demo'))
       => check_authorization(Demo', last.request).allowed]_vars

\* C4 witness: doc3 of kb1 now has its first explicit viewer, charlie, and
\* alice, curator of kb1 and on no list of doc3, has been allowed to view it.
C4_Witness ==
    /\ Checked
    /\ Constructed(genai)
    /\ ops = MaxOps
    /\ last.request = Request(user(alice), "can_view", <<"document", "doc3">>)
    /\ last.response.allowed
    /\ genai.documents[<<"doc3">>].viewers = <<charlie>>
    /\ genai.documents[<<"doc3">>].editors = <<>>
    /\ genai.documents[<<"doc3">>].owner_id # alice
    /\ genai.documents[<<"doc3">>].parent_kb_id = <<"kb1">>

\* can_use_in_rag is allowed to the subject of the last request on every
\* document id the stored query cites.
AllCitedUsable ==
    /\ has(genai.rag_queries, to_string(ObjectId))
    /\ LET docs == genai.rag_queries[to_string(ObjectId)].queried_documents
       IN  \A i \in 1..Len(docs) :
              GenAI_check_authorization(genai,
                  Request(user(to_string(SubjectId)), "can_use_in_rag",
                          format("document", docs[i]))).allowed

\* C5: can_access_results on a rag_query is allowed if and only if can_view
\* is allowed to the subject on the query and can_use_in_rag is allowed to
\* the subject on every document id the query cites; a query citing an id
\* that names no stored document is therefore denied.
C5_ResultsConjunction ==
    (Checked /\ Constructed(genai)
     /\ last.request.relation = "can_access_results"
     /\ ObjectType = "rag_query")
    => /\ last.response.allowed
          = (/\ GenAI_check_authorization(genai,
                    [last.request EXCEPT !.relation = "can_view"]).allowed
             /\ AllCitedUsable)
       /\ last.response.allowed
          => LET docs == genai.rag_queries[to_string(ObjectId)].queried_documents
             IN  \A i \in 1..Len(docs) : has(genai.documents, docs[i])

\* The number of permission checks the last check_authorization made.
permission_checks(self, request) ==
    IF Constructed(banking)
    THEN Banking_permission_checks(self, request)
    ELSE GenAI_permission_checks(self, request)

\* The number of document ids the query of the last request cites.
Cited ==
    IF Constructed(genai) /\ ObjectType = "rag_query"
       /\ has(genai.rag_queries, to_string(ObjectId))
    THEN Len(genai.rag_queries[to_string(ObjectId)].queried_documents)
    ELSE 0

ReadOperations ==
    {"check_authorization", "get_tuples", "get_documents_for_user",
     "get_filtered_rag_response"}

\* The value a read operation returns for a request on the graph self.
Answer(self, op, request) ==
    CASE op = "check_authorization" -> check_authorization(self, request)
      [] op = "get_tuples" -> self.tuples
      [] op = "get_documents_for_user" ->
            GenAI_get_documents_for_user(self, request)
      [] op = "get_filtered_rag_response" ->
            GenAI_get_filtered_rag_response(self, request[1], request[2])

\* C7: frame. A step in which a read operation returns leaves every map and
\* the tuple list as they were, and the same request on the graph it leaves
\* gets the same answer.
C7_ReadsLeaveGraph ==
    [][last'.op \in ReadOperations
       => /\ banking' = banking
          /\ genai' = genai
          /\ Answer(Demo', last'.op, last'.request) = last'.response]_vars

\* C7 witness: eve was allowed to view kb1 on a graph add_organization had
\* changed, and the graph holds the members it was given.
C7_Witness ==
    /\ Checked
    /\ Constructed(genai)
    /\ ops > 0
    /\ last.request = Request(user(eve), "can_view", <<"knowledge_base", "kb1">>)
    /\ last.response.allowed
    /\ genai.organizations[<<"org1">>].members = <<eve>>

\* C8: a request whose object or user string has no ':' is denied.
C8_MalformedDenied ==
    (Checked /\ (Len(last.request.object) < 2 \/ Len(last.request.user) < 2))
    => ~last.response.allowed

\* C9: a subject whose id is not a key of the users map is denied.
C9_UnknownSubjectDenied ==
    (Checked /\ ~has(Demo.users, to_string(SubjectId)))
    => ~last.response.allowed

\* new differs from old only in the role, name or email of stored users.
OnlyUserAttributesChange(old, new) ==
    /\ new # old
    /\ DOMAIN new.users = DOMAIN old.users
    /\ \A k \in DOMAIN old.users : new.users[k].id = old.users[k].id
    /\ new = [old EXCEPT !.users = new.users]

\* C10: role never gates. If the next step changes only the role, name or
\* email of stored users, the check just made has the same result on the new
\* graph.
C10_RoleNeverGates ==
    [][(Checked /\ OnlyUserAttributesChange(Demo, Demo'))
       => check_authorization(Demo', last.request).allowed
             = last.response.allowed]_vars

\* C10 witness: alice's user record now says "manager", not "customer", and
\* she has been allowed to view acc1, which she owns.
C10_Witness ==
    /\ Checked
    /\ Constructed(banking)
    /\ banking.users[alice].role = "manager"
    /\ BankingDemo_new.users[alice].role = "customer"
    /\ last.request = Request(user(alice), "can_view", <<"account", "acc1">>)
    /\ last.response.allowed

\* C11: get_documents_for_user(u) returns exactly the stored documents d for
\* which check_authorization(user:u, can_view, document:d) is allowed on the
\* current graph, and so every stored document whose owner_id is u.
C11_DocumentsForUser ==
    (Constructed(genai) /\ last.op = "get_documents_for_user")
    => /\ last.response
             = {d \in DOMAIN genai.documents :
                   GenAI_check_authorization(genai,
                       Request(user(last.request), "can_view",
                               format("document", d))).allowed}
       /\ \A d \in DOMAIN genai.documents :
             genai.documents[d].owner_id = last.request => d \in last.response

\* C12: get_filtered_rag_response(query, user) returns, for every query id
\* and user id, the query's response_text when can_access_results is allowed
\* to the user and the access-denied sentinel otherwise, and nothing else.
C12_TwoOutcomes ==
    (Constructed(genai) /\ last.op = "get_filtered_rag_response")
    => LET query_id == last.request[1]
           user_id == last.request[2]
           allowed == GenAI_check_authorization(genai,
                          Request(user(user_id), "can_access_results",
                                  format("rag_query", query_id))).allowed
       IN  last.response
              = IF allowed
                THEN Some(genai.rag_queries[query_id].response_text)
                ELSE Some(AccessDenied)

\* The type name written in the references to the entities of each map.
TypeName ==
    [banks |-> "bank", branches |-> "branch", accounts |-> "account",
     loans |-> "loan", organizations |-> "organization",
     knowledge_bases |-> "knowledge_base", documents |-> "document",
     ai_models |-> "ai_model", rag_sessions |-> "rag_session",
     rag_queries |-> "rag_query"]

\* The relation name of the triples pushed for each user list or user field.
RelationName ==
    [admins |-> "admin", managers |-> "manager", tellers |-> "teller",
     owners |-> "owner", co_owners |-> "co_owner",
     co_borrowers |-> "co_borrower", members |-> "member",
     curators |-> "curator", contributors |-> "contributor",
     readers |-> "reader", editors |-> "editor", viewers |-> "viewer",
     operators |-> "operator", users |-> "user",
     participants |-> "participant", manager_id |-> "manager",
     borrower_id |-> "borrower", loan_officer_id |-> "loan_officer",
     owner_id |-> "owner", initiated_by |-> "initiated_by"]

\* The relation name of the containment triple of each parent field.
ParentRelationName ==
    [parent_branch_id |-> "parent_branch", parent_org_id |-> "parent_org",
     parent_kb_id |-> "parent_kb", parent_session_id |-> "parent_session"]

\* (user:<id>, relation, type:id) for every member of every relation list.
ListTriples(self) ==
    UNION {UNION {UNION {{Tuple(user(self[map][key][f][i]), RelationName[f],
                                format(TypeName[map], key)) :
                             i \in 1..Len(self[map][key][f])} :
                         f \in RelationLists[map]} :
                  key \in DOMAIN self[map]} :
           map \in DOMAIN RelationLists \cap DOMAIN self}

\* (user:<id>, relation, type:id) for every single-user field that is set.
FieldTriples(self) ==
    UNION {UNION {{Tuple(user(self[map][key][f]), RelationName[f],
                         format(TypeName[map], key)) :
                      f \in {g \in RelationFields[map] :
                                self[map][key][g] # None}} :
                  key \in DOMAIN self[map]} :
           map \in DOMAIN RelationFields \cap DOMAIN self}

\* (parentType:<parent id>, parent relation, type:id) for every entity that
\* has a parent field.
ParentTriples(self) ==
    UNION {{Tuple(format(TypeName[Stored[t].into],
                         self[Stored[t].map][key][Stored[t].parent]),
                  ParentRelationName[Stored[t].parent], format(t, key)) :
               key \in DOMAIN self[Stored[t].map]} :
           t \in {x \in DOMAIN Stored : Stored[x].map \in DOMAIN self}}

\* C13: tuple materialization is complete and current. The triples get_tuples
\* returns hold the containment triple of every stored entity with its actual
\* parent id and one user triple per member of every relation list and per
\* user field, and every user triple they hold is a relation of the current
\* graph.
C13_TuplesCompleteAndCurrent ==
    last.op = "get_tuples"
    => LET got == BagToSet(last.response)
       IN  /\ ParentTriples(Demo) \subseteq got
           /\ ListTriples(Demo) \cup FieldTriples(Demo) \subseteq got
           /\ \A t \in got :
                 t.user[1] = "user"
                    => t \in ListTriples(Demo) \cup FieldTriples(Demo)

\* C14: checks reflect the current graph. The response of every check is the
\* one the current maps give, whatever the tuples list built at construction
\* holds; on can_withdraw the manager_id the account's branch has now is
\* allowed, and the manager the branch had at construction, replaced since
\* and holding no relation on the account, is denied.
C14_ChecksReflectCurrentGraph ==
    Checked
    => /\ last.response
             = check_authorization([Demo EXCEPT !.tuples = EmptyBag],
                                   last.request)
       /\ (/\ Constructed(banking)
           /\ last.request.relation = "can_withdraw"
           /\ ObjectType = "account"
           /\ has(banking.accounts, to_string(ObjectId))
           /\ has(banking.branches,
                  banking.accounts[to_string(ObjectId)].parent_branch_id))
          => LET account == banking.accounts[to_string(ObjectId)]
                 now == banking.branches[account.parent_branch_id]
                 before == BankingDemo_new.branches[account.parent_branch_id]
             IN  /\ now.manager_id = to_string(SubjectId)
                       => last.response.allowed
                 /\ (/\ before.manager_id = to_string(SubjectId)
                     /\ now.manager_id # to_string(SubjectId)
                     /\ ~contains(account.owners, to_string(SubjectId))
                     /\ ~contains(account.co_owners, to_string(SubjectId)))
                       => ~last.response.allowed

\* C14 witness: add_branch has replaced the manager of branch1, diana, with
\* eve, and diana has just been denied can_withdraw on acc1.
C14_Witness ==
    /\ Checked
    /\ Constructed(banking)
    /\ BankingDemo_new.branches[<<"branch1">>].manager_id = diana
    /\ banking.branches[<<"branch1">>].manager_id = eve
    /\ banking.accounts[<<"acc1">>].parent_branch_id = <<"branch1">>
    /\ last.request = Request(user(diana), "can_withdraw", <<"account", "acc1">>)
    /\ ~last.response.allowed

\* The subject of the last request is an owner or co-owner of the account
\* the request names.
SubjectOwnsAccount ==
    /\ has(banking.accounts, to_string(ObjectId))
    /\ \/ contains(banking.accounts[to_string(ObjectId)].owners,
                   to_string(SubjectId))
       \/ contains(banking.accounts[to_string(ObjectId)].co_owners,
                   to_string(SubjectId))

\* The account the last request names is stored and so is its parent branch.
AccountBranchStored ==
    /\ has(banking.accounts, to_string(ObjectId))
    /\ has(banking.branches,
           banking.accounts[to_string(ObjectId)].parent_branch_id)

\* The branch named by the parent_branch_id of the requested account.
AccountBranch ==
    banking.branches[banking.accounts[to_string(ObjectId)].parent_branch_id]

\* C15: can_withdraw on an account is allowed exactly when the subject is in
\* the account's owners or co_owners, or is the manager_id of the branch its
\* parent_branch_id names; a teller of that branch who is none of these is
\* denied.
C15_WithdrawOwnersOrManager ==
    (Checked /\ Constructed(banking)
     /\ last.request.relation = "can_withdraw" /\ ObjectType = "account")
    => last.response.allowed
          = (\/ SubjectOwnsAccount
             \/ (AccountBranchStored
                 /\ AccountBranch.manager_id = to_string(SubjectId)))

\* C15 witness: diana, manager of acc1's branch and neither owner nor
\* co-owner of acc1, has been allowed can_withdraw on acc1.
C15_Witness ==
    /\ Checked
    /\ Constructed(banking)
    /\ last.request = Request(user(diana), "can_withdraw", <<"account", "acc1">>)
    /\ last.response.allowed
    /\ ~SubjectOwnsAccount
    /\ AccountBranchStored
    /\ AccountBranch.manager_id = diana

\* C16: can_view on an account is allowed exactly when the subject is an
\* owner or co-owner of the account, or a teller or the manager of the
\* account's parent branch, whatever it holds on loans or on the bank.
C16_ViewOwnersOrBranchStaff ==
    (Checked /\ Constructed(banking)
     /\ last.request.relation = "can_view" /\ ObjectType = "account")
    => last.response.allowed
          = (\/ SubjectOwnsAccount
             \/ (AccountBranchStored
                 /\ (\/ AccountBranch.manager_id = to_string(SubjectId)
                     \/ contains(AccountBranch.tellers,
                                 to_string(SubjectId)))))

\* C16 witness: eve, loan officer of loan1 with no relation to acc1 or its
\* branch, has been denied can_view on acc1.
C16_Witness ==
    /\ Checked
    /\ Constructed(banking)
    /\ last.request = Request(user(eve), "can_view", <<"account", "acc1">>)
    /\ ~last.response.allowed
    /\ banking.loans[<<"loan1">>].loan_officer_id = eve
    /\ ~SubjectOwnsAccount
    /\ AccountBranchStored
    /\ AccountBranch.manager_id # eve
    /\ ~contains(AccountBranch.tellers, eve)

\* The AuthorizationRequest values the helpers called by the check of request
\* build for the nested checks: can_*_kb_for_document, can_view_session_kb,
\* can_view_query_session and can_access_all_queried_documents.
GenAI_delegated_requests(self, request) ==
    LET arm == <<request.relation, split_next(request.object)>>
        id == to_string(split_nth1(request.object))
        subject == format("user", to_string(split_nth1(request.user)))
    IN  CASE arm[2] = "document" /\ arm \in GenAI_dispatched
                /\ has(self.documents, id) ->
                {Request(subject, r,
                         format("knowledge_base",
                                self.documents[id].parent_kb_id)) :
                    r \in CASE arm[1] = "can_edit" -> {"can_contribute"}
                            [] arm[1] = "can_delete" -> {"can_curate"}
                            [] OTHER -> {"can_view", "can_curate"}}
          [] arm = <<"can_access_documents", "rag_session">>
                /\ has(self.rag_sessions, id) ->
                {Request(subject, "can_view",
                         format("knowledge_base",
                                self.rag_sessions[id].parent_kb_id))}
          [] arm[2] = "rag_query" /\ arm \in GenAI_dispatched
                /\ has(self.rag_queries, id) ->
                {Request(subject, "can_view",
                         format("rag_session",
                                self.rag_queries[id].parent_session_id))}
                \cup (IF arm[1] = "can_access_results"
                      THEN {Request(subject, "can_use_in_rag",
                                    format("document",
                                        self.rag_queries[id].queried_documents[i])) :
                               i \in 1..Len(self.rag_queries[id].queried_documents)}
                      ELSE {})
          [] OTHER -> {}

InFlight == last.op = "checking"

\* A store operation is taken whatever borrows are held.
ExclusiveBorrow_unchecked == TRUE

\* add_* take &mut self: none can run while a check holds &self.
ExclusiveBorrow == ~InFlight

\* An add_* of the hosting system, which leaves a check in flight as it is.
InterleavedMutation(next) ==
    /\ Constructed(genai)
    /\ ops < MaxOps
    /\ ExclusiveBorrow
    /\ genai' = next
    /\ ops' = ops + 1
    /\ last' = IF InFlight THEN last ELSE NoOperation
    /\ UNCHANGED <<banking, operator>>

InterleavedAddRagQuery ==
    \E args \in {<<<<"session9">>, alice, <<<<"doc1">>, <<"doc3">>>>>>,
                <<<<"session1">>, bob, <<<<"doc1">>, <<"doc3">>>>>>,
                <<<<"session1">>, bob, <<<<"doc9">>>>>>} :
        InterleavedMutation(GenAI_add_rag_query(genai, <<"query1">>, args[1],
                                args[2], "How?", args[3], DemoResponseText,
                                95))

InterleavedAddDocument ==
    \E args \in {<<<<"kb1">>, <<charlie>>>>, <<<<"kb9">>, <<>>>>,
                <<<<"kb9">>, <<bob>>>>} :
        InterleavedMutation(GenAI_add_document(genai, <<"doc3">>, "Title",
                                "Content", args[1], diana, <<>>, args[2],
                                <<>>))

InterleavedAddRagSession ==
    \E owner_id \in {bob, zed} :
        InterleavedMutation(GenAI_add_rag_session(genai, <<"session1">>,
                                "API Help Session", <<"kb1">>, <<"model1">>,
                                owner_id, <<charlie>>))

\* check_query_results_permission is entered and its first conjunct,
\* check_query_view_permission, is evaluated.
CheckQueryResultsBegin ==
    /\ Constructed(genai)
    /\ ~InFlight
    /\ \E u \in {alice, bob} :
          LET request == Request(user(u), "can_access_results",
                                 <<"rag_query", "query1">>)
          IN  last' = [op |-> "checking", request |-> request,
                       response |->
                          [start |-> genai, next |-> 1,
                           view |-> GenAI_check_query_view_permission(genai,
                                        request).allowed]]
    /\ UNCHANGED <<banking, genai, ops, operator>>

\* The cited documents of the query of the check in flight, as stored now.
InFlightDocuments ==
    LET query_id == to_string(split_nth1(last.request.object))
    IN  IF has(genai.rag_queries, query_id)
        THEN genai.rag_queries[query_id].queried_documents
        ELSE <<>>

\* One iteration of the loop of can_access_all_queried_documents: the rag
\* check of the next cited document; a denial ends the whole check.
CheckQueryResultsDocument ==
    /\ InFlight
    /\ last.response.view
    /\ last.response.next <= Len(InFlightDocuments)
    /\ LET doc_request ==
               Request(format("user", to_string(split_nth1(last.request.user))),
                       "can_use_in_rag",
                       format("document",
                              InFlightDocuments[last.response.next]))
       IN  last' = IF GenAI_check_document_rag_permission(genai,
                                                          doc_request).allowed
                   THEN [last EXCEPT !.response.next = @ + 1]
                   ELSE [op |-> "check_authorization",
                         request |-> last.request,
                         response |->
                            Response(FALSE,
                                "User not authorized to access query results")]
    /\ UNCHANGED <<banking, genai, ops, operator>>

\* check_query_results_permission returns: denied if the view check denied,
\* allowed once every cited document has passed.
CheckQueryResultsReturn ==
    /\ InFlight
    /\ ~last.response.view \/ last.response.next > Len(InFlightDocuments)
    /\ last' = [op |-> "check_authorization", request |-> last.request,
                response |->
                   IF last.response.view
                      /\ has(genai.rag_queries,
                             to_string(split_nth1(last.request.object)))
                   THEN Response(TRUE,
                            "User can view query and access all referenced documents")
                   ELSE Response(FALSE,
                            "User not authorized to access query results")]
    /\ UNCHANGED <<banking, genai, ops, operator>>

InitInterleaved ==
    /\ banking = NotConstructed
    /\ genai = GenAIRAGDemo_new
    /\ last = NoOperation
    /\ ops = 0
    /\ operator = NotStarted

NextInterleaved ==
    \/ InterleavedAddRagQuery
    \/ InterleavedAddDocument
    \/ InterleavedAddRagSession
    \/ CheckQueryResultsBegin
    \/ CheckQueryResultsDocument
    \/ CheckQueryResultsReturn

SpecInterleaved == InitInterleaved /\ [][NextInterleaved]_vars

MapOf ==
    [add_user |-> "users", add_bank |-> "banks", add_branch |-> "branches",
     add_account |-> "accounts", add_loan |-> "loans",
     add_transaction |-> "transactions",
     add_organization |-> "organizations",
     add_knowledge_base |-> "knowledge_bases", add_document |-> "documents",
     add_ai_model |-> "ai_models", add_rag_session |-> "rag_sessions",
     add_rag_query |-> "rag_queries"]

\* BankingDemo::<op>(args...) called when the clock reads timestamp.
Banking_apply(self, op, args, timestamp) ==
    CASE op = "add_user" ->
            Banking_add_user(self, args[1], args[2], args[3])
      [] op = "add_bank" ->
            Banking_add_bank(self, args[1], args[2], args[3], args[4])
      [] op = "add_branch" ->
            Banking_add_branch(self, args[1], args[2], args[3], args[4],
                               args[5])
      [] op = "add_account" ->
            Banking_add_account(self, args[1], args[2], args[3], args[4],
                                args[5], args[6], args[7])
      [] op = "add_loan" ->
            Banking_add_loan(self, args[1], args[2], args[3], args[4],
                             args[5], args[6], args[7], args[8])
      [] op = "add_transaction" ->
            Banking_add_transaction_at(self, args[1], args[2], args[3],
                                       args[4], args[5], args[6], timestamp)

\* GenAIRAGDemo::<op>(args...) called when the clock reads timestamp.
GenAI_apply(self, op, args, timestamp) ==
    CASE op = "add_user" ->
            GenAI_add_user(self, args[1], args[2], args[3], args[4])
      [] op = "add_organization" ->
            GenAI_add_organization(self, args[1], args[2], args[3], args[4])
      [] op = "add_knowledge_base" ->
            GenAI_add_knowledge_base(self, args[1], args[2], args[3],
                                     args[4], args[5], args[6], args[7])
      [] op = "add_document" ->
            GenAI_add_document_at(self, args[1], args[2], args[3], args[4],
                                  args[5], args[6], args[7], args[8],
                                  timestamp)
      [] op = "add_ai_model" ->
            GenAI_add_ai_model(self, args[1], args[2], args[3], args[4],
                               args[5], args[6])
      [] op = "add_rag_session" ->
            GenAI_add_rag_session_at(self, args[1], args[2], args[3],
                                     args[4], args[5], args[6], timestamp)
      [] op = "add_rag_query" ->
            GenAI_add_rag_query_at(self, args[1], args[2], args[3], args[4],
                                   args[5], args[6], args[7], timestamp)

\* The add_* of the program that is running.
apply(self, op, args, timestamp) ==
    IF Constructed(banking)
    THEN Banking_apply(self, op, args, timestamp)
    ELSE GenAI_apply(self, op, args, timestamp)

\* An id given to entities of several types.
shared == <<"x">>

\* One add_*: the clock has advanced since the operation before it.
StoreOperation(op, args) ==
    /\ ops < MaxOps
    /\ IF Constructed(banking)
       THEN /\ banking' = Banking_apply(banking, op, args, utc_now(ops + 1))
            /\ UNCHANGED genai
       ELSE /\ genai' = GenAI_apply(genai, op, args, utc_now(ops + 1))
            /\ UNCHANGED banking
    /\ ops' = ops + 1
    /\ last' = [op |-> op, request |-> args, response |-> <<>>]
    /\ UNCHANGED operator

StoreBankingAddUser ==
    /\ Constructed(banking)
    /\ \E id \in {alice, shared} :
          StoreOperation("add_user", <<id, "Renamed", "manager">>)

StoreBankingAddBank ==
    /\ Constructed(banking)
    /\ \E id \in {<<"bank1">>, shared} :
          StoreOperation("add_bank", <<id, "Bank", <<frank>>, <<diana, eve>>>>)

StoreBankingAddBranch ==
    /\ Constructed(banking)
    /\ \E id \in {<<"branch1">>, shared} :
          StoreOperation("add_branch",
                         <<id, "Branch", <<"bank1">>, eve, <<charlie>>>>)

StoreBankingAddAccount ==
    /\ Constructed(banking)
    /\ \E id \in {<<"acc1">>, shared} :
          StoreOperation("add_account",
                         <<id, "1001", <<"branch1">>, <<alice, eve>>, <<>>,
                           5000, "checking">>)

StoreBankingAddLoan ==
    /\ Constructed(banking)
    /\ \E id \in {<<"loan1">>, shared} :
          StoreOperation("add_loan",
                         <<id, <<"branch1">>, alice, <<bob>>, eve, 50000,
                           "approved", 35>>)

StoreBankingAddTransaction ==
    /\ Constructed(banking)
    /\ \E id \in {<<"tx1">>, shared} :
          StoreOperation("add_transaction",
                         <<id, None, <<"acc1">>, alice, 100, "deposit">>)

StoreGenAIAddUser ==
    /\ Constructed(genai)
    /\ \E id \in {bob, shared} :
          StoreOperation("add_user",
                         <<id, "Renamed", "r@company.com", "admin">>)

StoreGenAIAddOrganization ==
    /\ Constructed(genai)
    /\ \E id \in {<<"org1">>, shared} :
          StoreOperation("add_organization",
                         <<id, "Org", <<diana>>, <<eve>>>>)

StoreGenAIAddKnowledgeBase ==
    /\ Constructed(genai)
    /\ \E id \in {<<"kb1">>, shared} :
          StoreOperation("add_knowledge_base",
                         <<id, "KB", "Description", <<"org1">>,
                           <<alice, eve>>, <<bob>>, <<charlie>>>>)

StoreGenAIAddDocument ==
    /\ Constructed(genai)
    /\ \E id \in {<<"doc3">>, shared} :
          StoreOperation("add_document",
                         <<id, "Title", "Content", <<"kb1">>, diana, <<>>,
                           <<charlie>>, <<>>>>)

StoreGenAIAddAiModel ==
    /\ Constructed(genai)
    /\ \E id \in {<<"model1">>, shared} :
          StoreOperation("add_ai_model",
                         <<id, "Model", "language_model", <<"org1">>,
                           <<eve>>, <<alice>>>>)

StoreGenAIAddRagSession ==
    /\ Constructed(genai)
    /\ \E id \in {<<"session1">>, shared} :
          StoreOperation("add_rag_session",
                         <<id, "Session", <<"kb1">>, <<"model1">>, bob,
                           <<charlie>>>>)

StoreGenAIAddRagQuery ==
    /\ Constructed(genai)
    /\ \E id \in {<<"query1">>, shared} :
          StoreOperation("add_rag_query",
                         <<id, <<"session1">>, alice, "How?", <<<<"doc1">>>>,
                           DemoResponseText, 95>>)

NextStore ==
    \/ StoreBankingAddUser
    \/ StoreBankingAddBank
    \/ StoreBankingAddBranch
    \/ StoreBankingAddAccount
    \/ StoreBankingAddLoan
    \/ StoreBankingAddTransaction
    \/ StoreGenAIAddUser
    \/ StoreGenAIAddOrganization
    \/ StoreGenAIAddKnowledgeBase
    \/ StoreGenAIAddDocument
    \/ StoreGenAIAddAiModel
    \/ StoreGenAIAddRagSession
    \/ StoreGenAIAddRagQuery

SpecStore == Init /\ [][NextStore]_vars

\* The step is an add_* whose repetition, at the next reading of the clock,
\* would leave the store as the step has left it.
Idempotent ==
    apply(Demo', last'.op, last'.request, utc_now(ops' + 1)) = Demo'

\* The step is an add_* that has inserted or replaced the entity under its
\* id in the map of its type and changed nothing else.
ReplacesOneEntity ==
    LET map == MapOf[last'.op]
        id == last'.request[1]
    IN  /\ \A other \in (DOMAIN Demo) \ {map} : Demo'[other] = Demo[other]
        /\ DOMAIN Demo'[map] = DOMAIN Demo[map] \cup {id}
        /\ \A key \in (DOMAIN Demo[map]) \ {id} :
              Demo'[map][key] = Demo[map][key]
        /\ Demo'[map][id].id = id

\* C19: store put is an idempotent upsert keyed by (type, id). Applying the
\* add_* just applied once more leaves the store as it is; the add_* has
\* replaced the entity of its type under its id and changed no other entity,
\* of its type or, under the same id, of another type.
C19_IdempotentUpsert ==
    [][last'.op \in DOMAIN MapOf => (Idempotent /\ ReplacesOneEntity)]_vars

(***************************************************************************)
(* The controller: the Deployment and the Service built for an OpenFGA     *)
(***************************************************************************)

default_replicas == 1

default_image == "openfga/openfga:latest"

default_engine == "memory"

default_playground_port == 3000

default_grpc_port == 8081

default_http_port == 8080

\* ControllerResult::Ok
Ok(value) == [Ok |-> value]

\* IntOrString::Int
IntOrString_Int(n) == [Int |-> n]

\* The labels both objects carry and select on.
labels(name) == [app |-> "openfga", instance |-> name]

\* The ContainerPort / ServicePort fields left to Default::default() are
\* omitted.
ContainerPort(container_port, name) ==
    [container_port |-> container_port, name |-> Some(name),
     protocol |-> Some("TCP")]

ServicePort(port, target, name) ==
    [port |-> port, target_port |-> Some(IntOrString_Int(target)),
     name |-> Some(name), protocol |-> Some("TCP")]

create_deployment(openfga, ns, name) ==
    LET container_ports ==
            <<ContainerPort(openfga.spec.grpc.port, "grpc"),
              ContainerPort(openfga.spec.http.port, "http")>>
            \o (IF openfga.spec.playground.enabled
                THEN <<ContainerPort(openfga.spec.playground.port,
                                     "playground")>>
                ELSE <<>>)
        container ==
            [name |-> "openfga", image |-> Some(openfga.spec.image),
             ports |-> Some(container_ports), env |-> Some(<<>>)]
    IN  Ok([metadata |-> [name |-> Some(name), namespace |-> Some(ns),
                          labels |-> Some(labels(name))],
            spec |-> Some(
                [replicas |-> Some(openfga.spec.replicas),
                 selector |-> [match_labels |-> Some(labels(name))],
                 template |->
                    [metadata |-> Some([labels |-> Some(labels(name))]),
                     spec |-> Some([containers |-> <<container>>])]])])

\* The playground port is exposed whether or not the playground is enabled.
create_service_always_playground(openfga, ns, name) ==
    LET service_ports ==
            <<ServicePort(openfga.spec.grpc.port, openfga.spec.grpc.port,
                          "grpc"),
              ServicePort(openfga.spec.http.port, openfga.spec.http.port,
                          "http"),
              ServicePort(openfga.spec.playground.port,
                          openfga.spec.playground.port, "playground")>>
    IN  Ok([metadata |-> [name |-> Some(name), namespace |-> Some(ns),
                          labels |-> Some(labels(name))],
            spec |-> Some([selector |-> Some(labels(name)),
                           ports |-> Some(service_ports),
                           type_ |-> Some("ClusterIP")])])

create_service(openfga, ns, name) ==
    LET service_ports ==
            <<ServicePort(openfga.spec.grpc.port, openfga.spec.grpc.port,
                          "grpc"),
              ServicePort(openfga.spec.http.port, openfga.spec.http.port,
                          "http")>>
            \o (IF openfga.spec.playground.enabled
                THEN <<ServicePort(openfga.spec.playground.port,
                                   openfga.spec.playground.port,
                                   "playground")>>
                ELSE <<>>)
    IN  Ok([metadata |-> [name |-> Some(name), namespace |-> Some(ns),
                          labels |-> Some(labels(name))],
            spec |-> Some([selector |-> Some(labels(name)),
                           ports |-> Some(service_ports),
                           type_ |-> Some("ClusterIP")])])

\* The OpenFGA resources explored: the defaults and one other value of each
\* field the two objects are built from.
OpenFGAs ==
    {[spec |-> [replicas |-> replicas, image |-> default_image,
                datastore |-> [engine |-> default_engine, uri |-> None],
                playground |-> [enabled |-> enabled, port |-> playground],
                grpc |-> [port |-> grpc], http |-> [port |-> http]]] :
        replicas \in {default_replicas, 2}, enabled \in BOOLEAN,
        playground \in {default_playground_port, default_http_port},
        grpc \in {default_grpc_port, 9090},
        http \in {default_http_port, default_grpc_port}}

Namespaces == {"default", "test-ns"}

Names == {"openfga", "test-openfga"}

InitController ==
    /\ banking = NotConstructed
    /\ genai = NotConstructed
    /\ last = NoOperation
    /\ ops = 0
    /\ operator = NotStarted

CreateDeployment ==
    /\ \E openfga \in OpenFGAs, ns \in Namespaces, name \in Names :
          last' = [op |-> "create_deployment",
                   request |-> <<openfga, ns, name>>,
                   response |-> create_deployment(openfga, ns, name)]
    /\ UNCHANGED <<banking, genai, ops, operator>>

CreateService ==
    /\ \E openfga \in OpenFGAs, ns \in Namespaces, name \in Names :
          last' = [op |-> "create_service",
                   request |-> <<openfga, ns, name>>,
                   response |-> create_service(openfga, ns, name)]
    /\ UNCHANGED <<banking, genai, ops, operator>>

NextController ==
    \/ CreateDeployment
    \/ CreateService

SpecController == InitController /\ [][NextController]_vars

\* The Deployment for the resource of the last operation: the one it has
\* built, or the one create_deployment builds for it.
BuiltDeployment ==
    IF last.op = "create_deployment" THEN last.response.Ok
    ELSE create_deployment(last.request[1], last.request[2],
                           last.request[3]).Ok

\* The Service for the resource of the last operation.
BuiltService ==
    IF last.op = "create_service" THEN last.response.Ok
    ELSE create_service(last.request[1], last.request[2],
                        last.request[3]).Ok

\* The named ports the spec asks for, as (name, number) pairs.
RequestedPorts ==
    LET spec == last.request[1].spec
    IN  {<<"grpc", spec.grpc.port>>, <<"http", spec.http.port>>}
        \cup (IF spec.playground.enabled
              THEN {<<"playground", spec.playground.port>>}
              ELSE {})

\* C20: the Deployment and the Service built for an OpenFGA expose the same
\* named ports, exactly grpc and http plus playground if and only if the
\* playground is enabled; every Service port targets the container port of
\* its own number; both objects carry the requested name and namespace.
C20_SamePorts ==
    last.op \in {"create_deployment", "create_service"}
    => LET container_ports ==
               BuiltDeployment.spec[1].template.spec[1].containers[1].ports[1]
           service_ports == BuiltService.spec[1].ports[1]
       IN  /\ Len(container_ports) = Cardinality(RequestedPorts)
           /\ Len(service_ports) = Cardinality(RequestedPorts)
           /\ {<<container_ports[i].name[1], container_ports[i].container_port>> :
                  i \in DOMAIN container_ports} = RequestedPorts
           /\ {<<service_ports[i].name[1], service_ports[i].port>> :
                  i \in DOMAIN service_ports} = RequestedPorts
           /\ \A i \in DOMAIN service_ports :
                 /\ service_ports[i].target_port
                       = Some(IntOrString_Int(service_ports[i].port))
                 /\ \E j \in DOMAIN container_ports :
                       /\ container_ports[j].name = service_ports[i].name
                       /\ container_ports[j].container_port
                             = service_ports[i].port
           /\ BuiltDeployment.metadata.name = Some(last.request[3])
           /\ BuiltDeployment.metadata.namespace = Some(last.request[2])
           /\ BuiltService.metadata.name = Some(last.request[3])
           /\ BuiltService.metadata.namespace = Some(last.request[2])

\* C20 witness: create_service has built the Service of a resource with the
\* playground enabled, and it has three ports.
C20_Witness ==
    /\ last.op = "create_service"
    /\ last.request[1].spec.playground.enabled
    /\ Len(last.response.Ok.spec[1].ports[1]) = 3
    /\ last.request[2] = "test-ns"

(***************************************************************************)
(* Document access through a RAG session                                   *)
(***************************************************************************)

\* The graph with every AI model removed and every session pointed at a
\* model that is not stored.
WithoutModels(self) ==
    [self EXCEPT
        !.ai_models = EmptyMap,
        !.rag_sessions =
            [id \in DOMAIN self.rag_sessions |->
                [self.rag_sessions[id] EXCEPT
                    !.parent_model_id = <<"model9">>]]]

\* C21: can_access_documents on a rag_session is allowed if and only if the
\* subject is the owner or a participant of the session and is allowed
\* can_view on the session's parent knowledge base; an allowed subject's
\* session therefore names a stored knowledge base, and the answer is the
\* same whatever the session's parent model.
C21_SessionDocumentAccess ==
    (Checked /\ Constructed(genai)
     /\ last.request.relation = "can_access_documents"
     /\ ObjectType = "rag_session")
    => LET stored == has(genai.rag_sessions, to_string(ObjectId))
           session == genai.rag_sessions[to_string(ObjectId)]
       IN  /\ last.response.allowed
              = (/\ stored
                 /\ \/ session.owner_id = to_string(SubjectId)
                    \/ contains(session.participants, to_string(SubjectId))
                 /\ GenAI_check_authorization(genai,
                        Request(user(to_string(SubjectId)), "can_view",
                                format("knowledge_base",
                                       session.parent_kb_id))).allowed)
           /\ last.response.allowed
              => has(genai.knowledge_bases, session.parent_kb_id)
           /\ last.response
              = GenAI_check_authorization(WithoutModels(genai), last.request)

(***************************************************************************)
(* The controller: reconcile, update_status and error_policy               *)
(***************************************************************************)

\* Duration::from_secs
Duration_from_secs(secs) == [secs |-> secs]

\* kube::runtime::controller::Action::requeue
Action_requeue(duration) == [requeue_after |-> Some(duration)]

\* ControllerResult::Err
Err(error) == [Err |-> error]

\* ControllerError::Kube and ControllerError::Serialization; the wrapped
\* error is kept as the text its Display prints, a sequence of words.
ControllerError_Kube(text) == [Kube |-> text]

ControllerError_Serialization(text) == [Serialization |-> text]

\* str::contains for a pattern that is one word of the text.
str_contains(text, pattern) == \E i \in DOMAIN text : text[i] = pattern

\* Conflict is tested before NotFound.
error_policy_conflict_first(openfga, error) ==
    LET requeue_duration ==
            IF "Kube" \in DOMAIN error
            THEN LET kube_error == error.Kube
                 IN  IF str_contains(kube_error, "Conflict")
                     THEN Duration_from_secs(1)
                     ELSE IF str_contains(kube_error, "NotFound")
                     THEN Duration_from_secs(5)
                     ELSE IF str_contains(kube_error, "Forbidden")
                             \/ str_contains(kube_error, "Unauthorized")
                     THEN Duration_from_secs(300)
                     ELSE IF str_contains(kube_error, "TooManyRequests")
                             \/ str_contains(kube_error, "throttled")
                     THEN Duration_from_secs(60)
                     ELSE IF str_contains(kube_error, "timeout")
                             \/ str_contains(kube_error, "connection")
                     THEN Duration_from_secs(30)
                     ELSE Duration_from_secs(30)
            ELSE Duration_from_secs(120)
    IN  Action_requeue(requeue_duration)

error_policy(openfga, error) ==
    LET requeue_duration ==
            IF "Kube" \in DOMAIN error
            THEN LET kube_error == error.Kube
                 IN  IF str_contains(kube_error, "NotFound")
                     THEN Duration_from_secs(5)
                     ELSE IF str_contains(kube_error, "Conflict")
                     THEN Duration_from_secs(1)
                     ELSE IF str_contains(kube_error, "Forbidden")
                             \/ str_contains(kube_error, "Unauthorized")
                     THEN Duration_from_secs(300)
                     ELSE IF str_contains(kube_error, "TooManyRequests")
                             \/ str_contains(kube_error, "throttled")
                     THEN Duration_from_secs(60)
                     ELSE IF str_contains(kube_error, "timeout")
                             \/ str_contains(kube_error, "connection")
                     THEN Duration_from_secs(30)
                     ELSE Duration_from_secs(30)
            ELSE Duration_from_secs(120)
    IN  Action_requeue(requeue_duration)

\* The words error_policy looks for, and one it does not.
ErrorWords ==
    {"NotFound", "Conflict", "Forbidden", "Unauthorized", "TooManyRequests",
     "throttled", "timeout", "connection", "InternalError"}

\* The errors error_policy is applied to: Kubernetes errors of one or two
\* words, and a serialization error.
ControllerErrors ==
    {ControllerError_Kube(<<w>>) : w \in ErrorWords}
    \cup {ControllerError_Kube(<<v, w>>) : v \in ErrorWords, w \in ErrorWords}
    \cup {ControllerError_Serialization(<<"expected", "value">>)}

\* The errors the Kubernetes API answers a patch with.
PatchErrors == {<<"Conflict">>, <<"Forbidden">>, <<"connection", "timeout">>}

\* The resources reconciled: the defaults, with and without the playground.
ReconciledOpenFGAs ==
    {o \in OpenFGAs :
        /\ o.spec.replicas = default_replicas
        /\ o.spec.grpc.port = default_grpc_port
        /\ o.spec.http.port = default_http_port
        /\ o.spec.playground.port = default_playground_port}

\* The cluster before the operator has applied anything: no Deployment, no
\* Service, and no status on the OpenFGA resource.
EmptyCluster ==
    [deployments |-> EmptyMap, services |-> EmptyMap, statuses |-> EmptyMap]

\* One call of the Kubernetes API, as the log of a reconcile records it.
ApiCall(api, verb, ok) == [api |-> api, verb |-> verb, ok |-> ok]

\* reconcile returns `result` to the runtime.
ReconcileReturns(calls, result) ==
    /\ last' = [op |-> "reconcile",
                request |-> <<operator.openfga, operator.ns, operator.name>>,
                response |-> result]
    /\ operator' = [operator EXCEPT !.pc = "returned", !.calls = calls,
                                    !.result = result]

\* reconcile moves on to its next await.
ReconcileContinues(pc, calls) ==
    /\ operator' = [operator EXCEPT !.pc = pc, !.calls = calls]
    /\ UNCHANGED last

InitReconcile ==
    /\ banking = NotConstructed
    /\ genai = NotConstructed
    /\ last = NoOperation
    /\ ops = 0
    /\ operator = [started |-> TRUE, pc |-> "idle", cluster |-> EmptyCluster,
                   openfga |-> None, ns |-> "", name |-> "",
                   calls |-> <<>>, result |-> None, action |-> None]

\* The runtime calls reconcile: for a watched resource at first, and again
\* when the scheduled requeue is due.
ReconcileStart ==
    /\ operator.pc \in {"idle", "scheduled"}
    /\ \E openfga \in ReconciledOpenFGAs :
          operator' = [operator EXCEPT
                          !.pc = "deployments_get", !.openfga = openfga,
                          !.ns = "default", !.name = "openfga",
                          !.calls = <<>>, !.result = None, !.action = None]
    /\ last' = NoOperation
    /\ UNCHANGED <<banking, genai, ops>>

\* deployments.get(&name): both arms of the match go on to the patch.
DeploymentGet ==
    /\ operator.pc = "deployments_get"
    /\ \E ok \in {has(operator.cluster.deployments,
                      <<operator.ns, operator.name>>), FALSE} :
          ReconcileContinues("deployments_patch",
              Append(operator.calls, ApiCall("deployments", "get", ok)))
    /\ UNCHANGED <<banking, genai, ops>>

\* deployments.patch(&name, apply, &deployment)
DeploymentPatch ==
    /\ operator.pc = "deployments_patch"
    /\ \/ /\ operator' =
                [operator EXCEPT
                    !.pc = "services_get",
                    !.calls = Append(@, ApiCall("deployments", "patch", TRUE)),
                    !.cluster.deployments =
                        insert(@, <<operator.ns, operator.name>>,
                               create_deployment(operator.openfga, operator.ns,
                                                 operator.name).Ok)]
          /\ UNCHANGED last
       \/ \E e \in PatchErrors :
             ReconcileReturns(
                 Append(operator.calls, ApiCall("deployments", "patch", FALSE)),
                 Err(ControllerError_Kube(e)))
    /\ UNCHANGED <<banking, genai, ops>>

\* services.get(&name)
ServiceGet ==
    /\ operator.pc = "services_get"
    /\ \E ok \in {has(operator.cluster.services,
                      <<operator.ns, operator.name>>), FALSE} :
          ReconcileContinues("services_patch",
              Append(operator.calls, ApiCall("services", "get", ok)))
    /\ UNCHANGED <<banking, genai, ops>>

\* services.patch(&name, apply, &service)
ServicePatch ==
    /\ operator.pc = "services_patch"
    /\ \/ /\ operator' =
                [operator EXCEPT
                    !.pc = "status_get",
                    !.calls = Append(@, ApiCall("services", "patch", TRUE)),
                    !.cluster.services =
                        insert(@, <<operator.ns, operator.name>>,
                               create_service(operator.openfga, operator.ns,
                                              operator.name).Ok)]
          /\ UNCHANGED last
       \/ \E e \in PatchErrors :
             ReconcileReturns(
                 Append(operator.calls, ApiCall("services", "patch", FALSE)),
                 Err(ControllerError_Kube(e)))
    /\ UNCHANGED <<banking, genai, ops>>

\* update_status: deployments.get(name). When it fails update_status returns
\* Ok(()) and reconcile returns the requeue.
StatusGet ==
    /\ operator.pc = "status_get"
    /\ \/ /\ has(operator.cluster.deployments, <<operator.ns, operator.name>>)
          /\ ReconcileContinues("status_patch",
                 Append(operator.calls, ApiCall("deployments", "get", TRUE)))
       \/ ReconcileReturns(
              Append(operator.calls, ApiCall("deployments", "get", FALSE)),
              Ok(Action_requeue(Duration_from_secs(60))))
    /\ UNCHANGED <<banking, genai, ops>>

\* A failed status patch is returned by reconcile as its error.
StatusPatch_propagating ==
    /\ operator.pc = "status_patch"
    /\ \/ \E current_replicas \in {None, Some(operator.openfga.spec.replicas)},
             ready_replicas \in {None, Some(0)} :
             /\ last' = [op |-> "reconcile",
                         request |-> <<operator.openfga, operator.ns,
                                       operator.name>>,
                         response |->
                             Ok(Action_requeue(Duration_from_secs(60)))]
             /\ operator' =
                   [operator EXCEPT
                       !.pc = "returned",
                       !.calls = Append(@, ApiCall("openfgas", "patch_status",
                                                   TRUE)),
                       !.result = Ok(Action_requeue(Duration_from_secs(60))),
                       !.cluster.statuses =
                           insert(@, <<operator.ns, operator.name>>,
                                  [replicas |-> current_replicas,
                                   ready_replicas |-> ready_replicas,
                                   conditions |-> None])]
       \/ \E e \in PatchErrors :
             ReconcileReturns(
                 Append(operator.calls,
                        ApiCall("openfgas", "patch_status", FALSE)),
                 Err(ControllerError_Kube(e)))
    /\ UNCHANGED <<banking, genai, ops>>

\* update_status: openfgas.patch_status(name, merge, status), with the
\* replica counts the Deployment reports. reconcile returns the requeue
\* whether update_status returned Ok or Err.
StatusPatch ==
    /\ operator.pc = "status_patch"
    /\ \/ \E current_replicas \in {None, Some(operator.openfga.spec.replicas)},
             ready_replicas \in {None, Some(0)} :
             /\ last' = [op |-> "reconcile",
                         request |-> <<operator.openfga, operator.ns,
                                       operator.name>>,
                         response |->
                             Ok(Action_requeue(Duration_from_secs(60)))]
             /\ operator' =
                   [operator EXCEPT
                       !.pc = "returned",
                       !.calls = Append(@, ApiCall("openfgas", "patch_status",
                                                   TRUE)),
                       !.result = Ok(Action_requeue(Duration_from_secs(60))),
                       !.cluster.statuses =
                           insert(@, <<operator.ns, operator.name>>,
                                  [replicas |-> current_replicas,
                                   ready_replicas |-> ready_replicas,
                                   conditions |-> None])]
       \/ ReconcileReturns(
              Append(operator.calls, ApiCall("openfgas", "patch_status", FALSE)),
              Ok(Action_requeue(Duration_from_secs(60))))
    /\ UNCHANGED <<banking, genai, ops>>

\* Controller::run(reconcile, error_policy, ..): the runtime takes the Action
\* reconcile returned, or the one error_policy returns for its error.
RuntimeSchedules ==
    /\ operator.pc = "returned"
    /\ operator' =
          [operator EXCEPT
              !.pc = "scheduled",
              !.action =
                  IF "Ok" \in DOMAIN operator.result
                  THEN operator.result.Ok
                  ELSE error_policy(operator.openfga, operator.result.Err)]
    /\ UNCHANGED <<banking, genai, last, ops>>

\* error_policy applied to an error, before the first reconcile.
ErrorPolicyCall ==
    /\ operator.pc = "idle"
    /\ \E openfga \in ReconciledOpenFGAs, error \in ControllerErrors :
          last' = [op |-> "error_policy", request |-> <<openfga, error>>,
                   response |-> error_policy(openfga, error)]
    /\ UNCHANGED <<banking, genai, ops, operator>>

NextReconcile ==
    \/ ReconcileStart
    \/ DeploymentGet
    \/ DeploymentPatch
    \/ ServiceGet
    \/ ServicePatch
    \/ StatusGet
    \/ StatusPatch
    \/ RuntimeSchedules
    \/ ErrorPolicyCall

SpecReconcile == InitReconcile /\ [][NextReconcile]_vars

\* The calls of the reconcile in flight (or the last one) hold this one.
Called(call) == \E i \in DOMAIN operator.calls : operator.calls[i] = call

\* The reconcile in flight (or the last one) has called this API.
Touched(api) == \E i \in DOMAIN operator.calls : operator.calls[i].api = api

\* reconcile has returned, and the runtime may have scheduled the next one.
Reconciled == operator.pc \in {"returned", "scheduled"}

\* The steps of one reconcile are in order, and a failed step ends it.
ReconcileOrdered ==
    LET calls == operator.calls
    IN  /\ \A i \in DOMAIN calls :
              /\ calls[i].api = "services"
                 => \E j \in 1..(i - 1) :
                       calls[j] = ApiCall("deployments", "patch", TRUE)
              /\ calls[i].api = "openfgas"
                 => \E j \in 1..(i - 1) :
                       calls[j] = ApiCall("services", "patch", TRUE)
        /\ Called(ApiCall("deployments", "patch", FALSE))
           => /\ Reconciled
              /\ "Err" \in DOMAIN operator.result
              /\ ~Touched("services")
              /\ ~Touched("openfgas")
        /\ Called(ApiCall("services", "patch", FALSE))
           => /\ Reconciled
              /\ "Err" \in DOMAIN operator.result
              /\ ~Touched("openfgas")
        /\ (\/ Called(ApiCall("openfgas", "patch_status", FALSE))
            \/ /\ Reconciled
               /\ Called(ApiCall("services", "patch", TRUE))
               /\ ~Called(ApiCall("openfgas", "patch_status", TRUE)))
           => /\ Reconciled
              /\ operator.result = Ok(Action_requeue(Duration_from_secs(60)))

\* C22: within one reconcile the Deployment is applied, then the Service,
\* then the status. A failed Deployment apply returns an error with neither
\* the Service nor the status touched, a failed Service apply returns an
\* error with the status untouched, and a failed status update still returns
\* a requeue after 60 seconds. A step touches only its own object.
C22_ReconcileOrder ==
    [][/\ ReconcileOrdered'
       /\ operator'.cluster.deployments # operator.cluster.deployments
          => /\ operator.pc = "deployments_patch"
             /\ operator'.cluster.services = operator.cluster.services
             /\ operator'.cluster.statuses = operator.cluster.statuses
       /\ operator'.cluster.services # operator.cluster.services
          => /\ operator.pc = "services_patch"
             /\ Called(ApiCall("deployments", "patch", TRUE))
             /\ operator'.cluster.statuses = operator.cluster.statuses
       /\ operator'.cluster.statuses # operator.cluster.statuses
          => /\ operator.pc = "status_patch"
             /\ Called(ApiCall("services", "patch", TRUE))]_vars

\* C22 witness: the status patch of a reconcile failed after the Deployment
\* and the Service were applied, and reconcile returned the requeue.
C22_Witness ==
    /\ operator.pc = "returned"
    /\ Called(ApiCall("openfgas", "patch_status", FALSE))
    /\ Called(ApiCall("deployments", "patch", TRUE))
    /\ Called(ApiCall("services", "patch", TRUE))
    /\ last.response = Ok(Action_requeue(Duration_from_secs(60)))

\* The error classes in the order they are matched, and the requeue delay of
\* each in seconds.
ErrorClasses ==
    <<{"NotFound"}, {"Conflict"}, {"Forbidden", "Unauthorized"},
      {"TooManyRequests", "throttled"}, {"timeout", "connection"}>>

ErrorClassDelays == <<5, 1, 300, 60, 30>>

\* The delay of the first class a Kubernetes error matches, 30 s for one that
\* matches none, 120 s for a serialization error.
RequeueDelay(error) ==
    IF "Serialization" \in DOMAIN error THEN 120
    ELSE LET matching ==
                 {k \in DOMAIN ErrorClasses :
                     \E w \in ErrorClasses[k] : str_contains(error.Kube, w)}
         IN  IF matching = {} THEN 30
             ELSE ErrorClassDelays[CHOOSE k \in matching :
                                      \A m \in matching : k <= m]

\* C23: every reconcile outcome schedules another reconcile. A successful
\* reconcile is requeued after 60 s, and error_policy answers every error
\* with a requeue whose delay is that of the first class the error matches.
C23_AlwaysRequeued ==
    /\ last.op = "error_policy"
       => last.response
             = Action_requeue(Duration_from_secs(RequeueDelay(last.request[2])))
    /\ (operator # NotStarted /\ operator.pc = "scheduled")
       => /\ operator.action.requeue_after # None
          /\ operator.action
                = IF "Ok" \in DOMAIN operator.result
                  THEN Action_requeue(Duration_from_secs(60))
                  ELSE Action_requeue(Duration_from_secs(
                           RequeueDelay(operator.result.Err)))

\* C23 witness: error_policy answered an error that matches both Conflict
\* and NotFound with a requeue after 5 s.
C23_Witness ==
    /\ last.op = "error_policy"
    /\ last.request[2] = ControllerError_Kube(<<"Conflict", "NotFound">>)
    /\ last.response = Action_requeue(Duration_from_secs(5))

(***************************************************************************)
(* The operator process: startup with retry, controller, health endpoint   *)
(***************************************************************************)

\* impl Default for HealthStatus
HealthStatus_default ==
    [status |-> <<"initializing">>, kubernetes_connected |-> FALSE,
     controller_running |-> FALSE, uptime_seconds |-> 0]

\* handle_health_request, from the status the read lock returns. Of the body
\* of /health only the fields taken from the status are kept.
handle_health_request(path, status) ==
    IF path \in {"/health", "/healthz"}
    THEN LET is_healthy ==
                 status.kubernetes_connected /\ status.controller_running
         IN  [status |-> IF is_healthy THEN "OK" ELSE "SERVICE_UNAVAILABLE",
              body |-> [status |-> status.status,
                        kubernetes_connected |-> status.kubernetes_connected,
                        controller_running |-> status.controller_running,
                        uptime_seconds |-> status.uptime_seconds]]
    ELSE IF path \in {"/ready", "/readiness"}
    THEN LET is_ready == status.kubernetes_connected
         IN  [status |-> IF is_ready THEN "OK" ELSE "SERVICE_UNAVAILABLE",
              body |-> IF is_ready THEN "ready" ELSE "not ready"]
    ELSE IF path \in {"/live", "/liveness"}
    THEN [status |-> "OK", body |-> "alive"]
    ELSE [status |-> "NOT_FOUND", body |-> "Not Found"]

max_retry_attempts == 10

base_delay == Duration_from_secs(5)

max_delay == Duration_from_secs(300)

\* The ticks of health_interval are 30 s apart.
health_interval == Duration_from_secs(30)

\* 2_u32.pow(exp); the exponents the model reaches are far below 31, the
\* largest power of two an integer of the model checker holds is 2^30.
u32_pow(base, exp) == base ^ exp

\* Duration * u32
Duration_mul(duration, factor) == [secs |-> duration.secs * factor]

\* std::cmp::min on Durations
Duration_min(a, b) == IF a.secs <= b.secs THEN a ELSE b

\* The delay is not capped at max_delay.
backoff_delay_uncapped(retry_count) ==
    Duration_mul(base_delay, u32_pow(2, retry_count - 1))

\* The delay slept after the retry_count-th failed attempt.
backoff_delay(retry_count) ==
    Duration_min(Duration_mul(base_delay, u32_pow(2, retry_count - 1)),
                 max_delay)

\* format!("retrying (attempt {})", retry_count)
retrying(retry_count) == <<"retrying (attempt {})", retry_count>>

\* OpenFGAController::run returns Ok(()) when the controller stream ends.
OpenFGAController_run == Ok(<<>>)

InitOperator ==
    /\ banking = NotConstructed
    /\ genai = NotConstructed
    /\ last = NoOperation
    /\ ops = 0
    /\ operator = [started |-> TRUE, pc |-> "select",
                   health |-> HealthStatus_default, retry_count |-> 0,
                   elapsed |-> 0, ticks |-> 0, monitor_ticks |-> 0,
                   delays |-> <<>>, result |-> None]

\* The top of the loop: status.uptime_seconds = start_time.elapsed().
LoopTop(state, elapsed) ==
    [state EXCEPT !.pc = "select", !.elapsed = elapsed,
                  !.health.uptime_seconds = elapsed]

\* A health request answered by the endpoint task.
HealthRequest ==
    /\ \E path \in {"/health", "/healthz", "/ready", "/readiness", "/live",
                    "/metrics"} :
          last' = [op |-> "handle_health_request", request |-> path,
                   response |-> handle_health_request(path, operator.health)]
    /\ UNCHANGED <<banking, genai, ops, operator>>

\* A tick is counted as a failed attempt.
HealthTick_counting ==
    /\ operator.pc = "select"
    /\ operator.ticks < MaxTicks
    /\ operator' = [LoopTop(operator, operator.elapsed + health_interval.secs)
                       EXCEPT !.ticks = @ + 1, !.retry_count = @ + 1]
    /\ UNCHANGED <<banking, genai, last, ops>>

\* select!: health_interval.tick() completes first. The connection attempt
\* in flight is dropped and the loop starts another.
HealthTick ==
    /\ operator.pc = "select"
    /\ operator.ticks < MaxTicks
    /\ operator' = [LoopTop(operator, operator.elapsed + health_interval.secs)
                       EXCEPT !.ticks = @ + 1]
    /\ UNCHANGED <<banking, genai, last, ops>>

\* select!: attempt_kubernetes_connection() returns Ok(client).
ConnectionSucceeds ==
    /\ operator.pc = "select"
    /\ operator' = [operator EXCEPT
                       !.pc = "run_controller",
                       !.health.status = <<"running">>,
                       !.health.kubernetes_connected = TRUE]
    /\ UNCHANGED <<banking, genai, last, ops>>

\* select!: attempt_kubernetes_connection() returns Err(e).
ConnectionFails ==
    /\ operator.pc = "select"
    /\ operator' = [operator EXCEPT
                       !.pc = "attempt_failed",
                       !.retry_count = @ + 1,
                       !.health.status = retrying(operator.retry_count + 1),
                       !.health.kubernetes_connected = FALSE]
    /\ UNCHANGED <<banking, genai, last, ops>>

\* retry_count >= max_retry_attempts: status "failed", return Err(e).
RetriesExhausted ==
    /\ operator.pc = "attempt_failed"
    /\ operator.retry_count >= max_retry_attempts
    /\ operator' = [operator EXCEPT
                       !.pc = "exited",
                       !.health.status = <<"failed">>,
                       !.result = Err(<<"kube::Error">>)]
    /\ UNCHANGED <<banking, genai, last, ops>>

\* sleep(delay).await begins.
Backoff ==
    /\ operator.pc = "attempt_failed"
    /\ operator.retry_count < max_retry_attempts
    /\ operator' = [operator EXCEPT
                       !.pc = "sleeping",
                       !.delays = Append(@, backoff_delay(operator.retry_count))]
    /\ UNCHANGED <<banking, genai, last, ops>>

\* sleep(delay).await ends, and the loop starts over.
Wake ==
    /\ operator.pc = "sleeping"
    /\ operator' = LoopTop(operator,
                       operator.elapsed
                           + operator.delays[Len(operator.delays)].secs)
    /\ UNCHANGED <<banking, genai, last, ops>>

\* run_controller_with_health_monitoring: controller_running = true.
ControllerStarts ==
    /\ operator.pc = "run_controller"
    /\ operator' = [operator EXCEPT
                       !.pc = "controller",
                       !.health.controller_running = TRUE]
    /\ UNCHANGED <<banking, genai, last, ops>>

\* The health task of the running controller: a tick every 60 s, counted
\* from the start of the controller.
MonitorTick ==
    /\ operator.pc = "controller"
    /\ operator.ticks < MaxTicks
    /\ operator' = [operator EXCEPT
                       !.ticks = @ + 1,
                       !.monitor_ticks = @ + 1,
                       !.health.uptime_seconds = 60 * operator.monitor_ticks]
    /\ UNCHANGED <<banking, genai, last, ops>>

\* select!: controller.run() returns; controller_running = false.
ControllerReturns ==
    /\ operator.pc = "controller"
    /\ operator' = [operator EXCEPT
                       !.pc = "controller_returned",
                       !.health.controller_running = FALSE,
                       !.result = OpenFGAController_run]
    /\ UNCHANGED <<banking, genai, last, ops>>

\* match result: Ok(_) => Ok(()), Err(e) => status "controller_failed".
ControllerResult ==
    /\ operator.pc = "controller_returned"
    /\ operator' = IF "Ok" \in DOMAIN operator.result
                   THEN [operator EXCEPT !.pc = "exited"]
                   ELSE [operator EXCEPT
                            !.pc = "exited",
                            !.health.status = <<"controller_failed">>]
    /\ UNCHANGED <<banking, genai, last, ops>>

\* The interrupt leaves controller_running set.
Interrupted_still_running ==
    /\ operator.pc = "controller"
    /\ operator' = [operator EXCEPT
                       !.pc = "exited",
                       !.health.status = <<"shutting_down">>,
                       !.result = Ok(<<>>)]
    /\ UNCHANGED <<banking, genai, last, ops>>

\* select!: signal::ctrl_c() completes first.
Interrupted ==
    /\ operator.pc = "controller"
    /\ operator' = [operator EXCEPT
                       !.pc = "exited",
                       !.health.status = <<"shutting_down">>,
                       !.health.controller_running = FALSE,
                       !.result = Ok(<<>>)]
    /\ UNCHANGED <<banking, genai, last, ops>>

NextOperator ==
    \/ HealthRequest
    \/ HealthTick
    \/ ConnectionSucceeds
    \/ ConnectionFails
    \/ RetriesExhausted
    \/ Backoff
    \/ Wake
    \/ ControllerStarts
    \/ MonitorTick
    \/ ControllerReturns
    \/ ControllerResult
    \/ Interrupted

SpecOperator == InitOperator /\ [][NextOperator]_vars

\* Every connection attempt completes, every sleep ends, and the steps of
\* the process between two awaits are taken.
SpecOperatorFair ==
    /\ SpecOperator
    /\ WF_vars(ConnectionSucceeds \/ ConnectionFails)
    /\ WF_vars(RetriesExhausted \/ Backoff \/ Wake \/ ControllerStarts)

\* Startup has ended with the controller started.
ControllerStarted == operator.pc = "controller"

\* Startup has ended with the error of the last attempt.
StartupFailed ==
    /\ operator.pc = "exited"
    /\ operator.health.status = <<"failed">>
    /\ "Err" \in DOMAIN operator.result

\* C24: startup retry is bounded and terminates. Only a failed connection
\* attempt changes retry_count, by one; a successful attempt sets status
\* "running" and kubernetes_connected and goes on to start the controller;
\* the 10th failed attempt sets status "failed" and returns the error after
\* nine sleeps; and one of the two outcomes is eventually reached.
C24_StartupTerminates ==
    /\ [][/\ operator'.retry_count # operator.retry_count
             => /\ operator.pc = "select"
                /\ operator'.pc = "attempt_failed"
                /\ operator'.retry_count = operator.retry_count + 1
          /\ (operator.pc = "select" /\ operator'.pc = "run_controller")
             => /\ operator'.health.status = <<"running">>
                /\ operator'.health.kubernetes_connected
          /\ operator.pc = "run_controller"
             => operator'.pc \in {"run_controller", "controller"}
          /\ (operator.pc = "attempt_failed" /\ operator'.pc = "exited")
             => /\ operator.retry_count = max_retry_attempts
                /\ Len(operator'.delays) = max_retry_attempts - 1
                /\ operator'.health.status = <<"failed">>
                /\ "Err" \in DOMAIN operator'.result
          /\ (operator.pc = "attempt_failed"
              /\ operator.retry_count >= max_retry_attempts)
             => operator'.pc \in {"attempt_failed", "exited"}
          /\ operator'.retry_count <= max_retry_attempts]_vars
    /\ <>(ControllerStarted \/ StartupFailed)

\* C24 witness: startup failed on the 10th failed attempt, with health ticks
\* taken on the way.
C24_Witness ==
    /\ StartupFailed
    /\ operator.retry_count = 10
    /\ operator.ticks = MaxTicks
    /\ Len(operator.delays) = 9

\* The delays of the claim, in seconds, by the number of failed attempts.
BackoffSeconds == <<5, 10, 20, 40, 80, 160, 300, 300, 300>>

\* C25: after the n-th failed connection attempt (1 <= n <= 9) the operator
\* sleeps min(5 * 2^(n-1), 300) seconds, that is 5, 10, 20, 40, 80, 160,
\* 300, 300, 300; the delay never decreases, never exceeds 300 s, and the
\* exponent and the product stay within u32 and u64.
C25_BackoffDelays ==
    LET delays == operator.delays
    IN  /\ Len(delays) <= Len(BackoffSeconds)
        /\ operator.pc = "sleeping" => Len(delays) = operator.retry_count
        /\ \A n \in DOMAIN delays :
              /\ delays[n].secs = BackoffSeconds[n]
              /\ delays[n].secs
                    = (IF 5 * 2 ^ (n - 1) <= 300 THEN 5 * 2 ^ (n - 1) ELSE 300)
              /\ delays[n].secs <= 300
              /\ n > 1 => delays[n - 1].secs <= delays[n].secs
        /\ (operator.pc = "attempt_failed"
            /\ operator.retry_count < max_retry_attempts)
           => /\ operator.retry_count - 1 >= 0
              /\ operator.retry_count - 1 < 32
              /\ operator.retry_count - 1 + 3 < 64

\* C25 witness: the operator sleeps after the 9th failed attempt, for 300 s.
C25_Witness ==
    /\ operator.pc = "sleeping"
    /\ operator.retry_count = 9
    /\ operator.delays[9] = Duration_from_secs(300)

\* C26: in every state of the operator process controller_running implies
\* kubernetes_connected, so /health is never answered OK where /ready is
\* answered SERVICE_UNAVAILABLE; status "failed" occurs only with both flags
\* false; and once the controller has stopped, by its end or by an
\* interrupt, controller_running is false.
C26_HealthInvariant ==
    LET health == operator.health
    IN  /\ health.controller_running => health.kubernetes_connected
        /\ \A h \in {"/health", "/healthz"}, r \in {"/ready", "/readiness"} :
              handle_health_request(h, health).status = "OK"
              => handle_health_request(r, health).status = "OK"
        /\ (last.op = "handle_health_request"
            /\ last.request \in {"/health", "/healthz"}
            /\ last.response.status = "OK")
           => /\ last.response.body.kubernetes_connected
              /\ last.response.body.controller_running
        /\ health.status = <<"failed">>
           => /\ ~health.kubernetes_connected
              /\ ~health.controller_running
        /\ operator.pc \in {"controller_returned", "exited"}
           => ~health.controller_running

\* C26 witness: /health was answered OK while the controller ran, and the
\* controller has since been stopped by an interrupt.
C26_Witness ==
    /\ last.op = "handle_health_request"
    /\ last.request = "/health"
    /\ last.response.status = "OK"
    /\ operator.pc = "exited"
    /\ operator.health.status = <<"shutting_down">>
    /\ ~operator.health.controller_running
    /\ operator.health.kubernetes_connected

(***************************************************************************)
(* Nesting of permissions                                                  *)
(***************************************************************************)

\* C27: can_view is the weakest document permission. A subject allowed
\* can_edit, can_delete or can_use_in_rag on a document is allowed can_view
\* on it, whatever the document's viewers and editors lists hold.
C27_ViewWeakest ==
    (Checked /\ Constructed(genai)
     /\ ObjectType = "document"
     /\ last.request.relation \in {"can_edit", "can_delete", "can_use_in_rag"}
     /\ last.response.allowed)
    => GenAI_check_authorization(genai,
           [last.request EXCEPT !.relation = "can_view"]).allowed

\* The relations the claim puts below each banking relation, by object type.
BankingImplied ==
    [account |-> [can_transfer |-> {"can_withdraw", "can_deposit"},
                  can_deposit |-> {"can_view"},
                  can_withdraw |-> {"can_view"}],
     loan |-> [can_modify |-> {"can_approve"},
               can_approve |-> {"can_view"}]]

\* C28: banking permissions are nested. On an account can_transfer implies
\* can_withdraw and can_deposit, and can_deposit or can_withdraw implies
\* can_view; on a loan can_modify implies can_approve, and can_approve
\* implies can_view.
C28_BankingNested ==
    (Checked /\ Constructed(banking)
     /\ ObjectType \in DOMAIN BankingImplied
     /\ last.request.relation \in DOMAIN BankingImplied[ObjectType]
     /\ last.response.allowed)
    => \A relation \in BankingImplied[ObjectType][last.request.relation] :
          Banking_check_authorization(banking,
              [last.request EXCEPT !.relation = relation]).allowed

\* C28 witness: eve, the loan officer of loan1, was allowed can_modify on it;
\* or the manager of the branch was allowed can_withdraw on an account she
\* does not own.
C28_Witness ==
    /\ Checked /\ Constructed(banking)
    /\ last.response.allowed
    /\ \/ /\ last.request
                = Request(user(eve), "can_modify", <<"loan", "loan1">>)
          /\ banking.loans[<<"loan1">>].loan_officer_id = eve
       \/ /\ last.request
                = Request(user(diana), "can_withdraw", <<"account", "acc1">>)
          /\ ~contains(banking.accounts[<<"acc1">>].owners, diana)

(***************************************************************************)
(* Grants on documents                                                     *)
(***************************************************************************)

\* new is old with user x appended to the viewers or to the editors of the
\* stored document doc_id, and nothing else changed.
GrantsOnDocument(old, new, doc_id, x) ==
    /\ has(old.documents, doc_id)
    /\ \/ new = [old EXCEPT !.documents[doc_id].viewers = Append(@, x)]
       \/ new = [old EXCEPT !.documents[doc_id].editors = Append(@, x)]

====
